---------------------------- MODULE Spec2Model ----------------------------
(***************************************************************************)
(* CashCanvas: the CSV ingestion pipeline (app/parsers.py, the upload      *)
(* endpoint of app/api/transactions.py), the schema validators of          *)
(* app/schemas.py, and the category resolver and the analytics aggregator  *)
(* of app/crud/operations.py.                                              *)
(*                                                                         *)
(* Text is modelled as a sequence of one-character strings, so that        *)
(* trimming, splitting, case folding and number/date parsing are computed  *)
(* character by character as the Python code computes them.  Money is an   *)
(* integer count of 10^-FracDigits units (cents for FracDigits = 2).       *)
(*                                                                         *)
(* The amounts compute_analytics adds are Python floats.  A float is       *)
(* modelled as an integer of at most MantissaBits significant bits, and a  *)
(* float addition as the exact sum rounded to the nearest such value, ties *)
(* to even, as IEEE 754 rounds (binary64 keeps 53 bits).                   *)
(***************************************************************************)
EXTENDS Integers, Sequences, FiniteSets, TLC

VARIABLES
    pc,            \* position of the upload_csv request
    form_institution, \* the institution form field of the request
    institution,   \* parse_csv's institution, rebound to its normalized form
    parser,        \* the loader parse_csv dispatched to ("" before dispatch)
    fieldnames,    \* reader.fieldnames: the raw header cells of the file
    headers,       \* the mapping _parse_headers returned
    file_rows,     \* the data rows of the uploaded file
    rows_read,     \* how many of them the reader has yielded so far
    transactions,  \* the loader's local list of accepted records
    errors,        \* the loader's local list of row errors
    raised,        \* the exception parse_csv raised (kind "none" when none)
    result,        \* the list parse_csv returned
    db,            \* the rows save_transactions persisted
    save_calls,    \* number of calls of save_transactions
    response,      \* the HTTP response of the request
    names_in,      \* category resolver: the free-text name list given
    cat_table,     \* category resolver: the spend_categories table
    names_schema,  \* category resolver: result of default_spend_categories
    names_db,      \* category resolver: names _resolve_spend_categories gave
    names_again,   \* category resolver: the result resolved a second time
    hdr_expected,  \* header resolver: the expected display names
    hdr_actual,    \* header resolver: the actual header cells
    hdr_outcome,   \* header resolver: what _parse_headers did
    an_txns,       \* analytics: the transaction list given to compute_analytics
    an_result,     \* analytics: what compute_analytics returned for it
    an_order,      \* analytics: the same transactions in a second order
    an_reordered,  \* analytics: what compute_analytics returned for that order
    rt_txn,        \* round trip: the stored transaction written out
    rt_row,        \* round trip: its row in the CashCanvas file
    rt_back,       \* round trip: the record re-parsed and re-validated
    txn_table,     \* store: the transactions table with its association rows
    cc_table,      \* store: the cost_centers table
    sc_table,      \* store: the spend_categories table
    last_call,     \* store: the last CRUD call, and whether it blanked both fields
    flt_args,      \* filters: the arguments of the two query builders
    flt_listed,    \* filters: ids build_filter_query selects
    flt_analysed   \* filters: ids get_transactions selects

pipeVars == <<pc, form_institution, institution, parser, fieldnames, headers, file_rows, rows_read,
              transactions, errors, raised, result, db, save_calls, response>>
resolveVars == <<names_in, cat_table, names_schema, names_db, names_again>>
headerVars == <<hdr_expected, hdr_actual, hdr_outcome>>
analyticsVars == <<an_txns, an_result, an_order, an_reordered>>
tripVars == <<rt_txn, rt_row, rt_back>>
storeVars == <<txn_table, cc_table, sc_table, last_call>>
filterVars == <<flt_args, flt_listed, flt_analysed>>
vars == <<pipeVars, resolveVars, headerVars, analyticsVars, tripVars, storeVars, filterVars>>

---------------------------------------------------------------------------
(* Bounds of the model.                                                    *)

\* most data rows of one uploaded file
MaxRows == 5
\* most names in one category list given to the resolver
MaxNames == 3
\* most header cells of a file given to the header resolver alone
MaxHdrs == 2
\* fractional digits kept of a parsed amount
FracDigits == 2
\* significant bits of a float
MantissaBits == 3
\* most transactions in one list given to compute_analytics
MaxTxns == 3
\* most data rows of a file in the long-file specification
MaxErrRows == 22

---------------------------------------------------------------------------
(* Characters and text.                                                    *)

\* Python's None where a text value is optional
None == <<"<None>">>

\* the two byte-order-mark characters clean_header removes
BOM == "<U+FEFF>"
BOMswapped == "<U+FFFE>"

\* characters str.strip() and str.split() treat as whitespace
Whitespace == {" ", "\t"}

Digits == <<"0", "1", "2", "3", "4", "5", "6", "7", "8", "9">>
DigitSet == {Digits[i] : i \in 1..10}
DigitVal(c) == (CHOOSE i \in 1..10 : Digits[i] = c) - 1

UpperCase == <<"A", "B", "C", "D", "E", "F", "G", "H", "I", "J", "K", "L", "M",
               "N", "O", "P", "Q", "R", "S", "T", "U", "V", "W", "X", "Y", "Z">>
LowerCase == <<"a", "b", "c", "d", "e", "f", "g", "h", "i", "j", "k", "l", "m",
               "n", "o", "p", "q", "r", "s", "t", "u", "v", "w", "x", "y", "z">>

\* str.lower() of one character
LowerChar(c) ==
    IF \E i \in 1..26 : UpperCase[i] = c
    THEN LowerCase[CHOOSE i \in 1..26 : UpperCase[i] = c]
    ELSE c

\* str.lower()
Lower(s) == [i \in 1..Len(s) |-> LowerChar(s[i])]

RECURSIVE LStrip(_)
LStrip(s) ==
    IF s # <<>> /\ s[1] \in Whitespace THEN LStrip(Tail(s)) ELSE s

RECURSIVE RStrip(_)
RStrip(s) ==
    IF s # <<>> /\ s[Len(s)] \in Whitespace
    THEN RStrip(SubSeq(s, 1, Len(s) - 1))
    ELSE s

\* str.strip()
Strip(s) == RStrip(LStrip(s))

\* str.replace(c, '')
RemoveChar(s, c) == SelectSeq(s, LAMBDA x : x # c)

\* str.split(sep): the pieces between the occurrences of sep
RECURSIVE SplitFrom(_, _, _, _)
SplitFrom(s, sep, i, piece) ==
    IF i > Len(s) THEN <<piece>>
    ELSE IF s[i] = sep THEN <<piece>> \o SplitFrom(s, sep, i + 1, <<>>)
    ELSE SplitFrom(s, sep, i + 1, Append(piece, s[i]))

SplitOn(s, sep) == SplitFrom(s, sep, 1, <<>>)

\* str.split(): the maximal runs of non-whitespace characters
RECURSIVE WordsFrom(_, _, _)
WordsFrom(s, i, word) ==
    IF i > Len(s) THEN (IF word = <<>> THEN <<>> ELSE <<word>>)
    ELSE IF s[i] \in Whitespace
         THEN (IF word = <<>> THEN <<>> ELSE <<word>>) \o WordsFrom(s, i + 1, <<>>)
         ELSE WordsFrom(s, i + 1, Append(word, s[i]))

SplitWords(s) == WordsFrom(s, 1, <<>>)

\* ''.join(parts)
RECURSIVE Join(_)
Join(parts) ==
    IF parts = <<>> THEN <<>> ELSE Head(parts) \o Join(Tail(parts))

\* a text of n copies of character c
Repeat(c, n) == [i \in 1..n |-> c]

RECURSIVE Pow10(_)
Pow10(n) == IF n <= 0 THEN 1 ELSE 10 * Pow10(n - 1)

\* the number a run of decimal digits denotes
RECURSIVE NatOf(_)
NatOf(ds) ==
    IF ds = <<>> THEN 0
    ELSE 10 * NatOf(SubSeq(ds, 1, Len(ds) - 1)) + DigitVal(ds[Len(ds)])

AllDigits(s) == \A i \in 1..Len(s) : s[i] \in DigitSet

---------------------------------------------------------------------------
(* Currency/Text Normalizer (parsers.py).                                  *)

\* clean_header with case folded as well: a resolver that also ignored case
CleanHeaderFolded(header) ==
    IF header = <<>> THEN <<>>
    ELSE Lower(Strip(Join(SplitWords(RemoveChar(RemoveChar(header, BOM), BOMswapped)))))

\* clean_header: both BOM characters and every whitespace character removed
CleanHeader(header) ==
    IF header = <<>> THEN <<>>
    ELSE Strip(Join(SplitWords(RemoveChar(RemoveChar(header, BOM), BOMswapped))))

\* float(text) for text over digits, sign and decimal point: an optional
\* sign, then digits with at most one decimal point and at least one digit.
\* The value is in units of 10^-FracDigits; the inputs of the model carry at
\* most FracDigits fractional digits.
FloatOf(text) ==
    LET signed == text # <<>> /\ text[1] \in {"-", "+"}
        body   == IF signed THEN Tail(text) ELSE text
        dots   == {i \in 1..Len(body) : body[i] = "."}
        dot    == IF dots = {} THEN Len(body) + 1 ELSE CHOOSE i \in dots : TRUE
        whole  == SubSeq(body, 1, dot - 1)
        frac   == SubSeq(body, dot + 1, Len(body))
        padded == SubSeq(frac \o Repeat("0", FracDigits), 1, FracDigits)
        wellformed ==
            /\ Cardinality(dots) <= 1
            /\ \A i \in 1..Len(body) : body[i] \in DigitSet \cup {"."}
            /\ \E i \in 1..Len(body) : body[i] \in DigitSet
        magnitude == NatOf(whole) * Pow10(FracDigits) + NatOf(padded)
    IN  IF wellformed
        THEN [ok |-> TRUE,
              v  |-> IF signed /\ text[1] = "-" THEN 0 - magnitude ELSE magnitude]
        ELSE [ok |-> FALSE, v |-> 0]

\* clean_currency_string: [ok, v, msg]; msg is the ValueError raised
clean_currency_string(value) ==
    IF value = <<>> \/ Strip(value) = <<>>
    THEN [ok |-> FALSE, v |-> 0, msg |-> "Empty or invalid currency value"]
    ELSE LET cleaned == SelectSeq(Strip(value),
                                  LAMBDA c : c \notin {"$", ","} \cup Whitespace)
         IN  IF cleaned = <<>>
             THEN [ok |-> FALSE, v |-> 0, msg |-> "Empty or invalid currency value"]
             ELSE IF FloatOf(cleaned).ok
                  THEN [ok |-> TRUE, v |-> FloatOf(cleaned).v, msg |-> ""]
                  ELSE [ok |-> FALSE, v |-> 0, msg |-> "Invalid currency value"]

---------------------------------------------------------------------------
(* datetime.strptime(...).date() for the two formats the loaders use.      *)

NoDate == [y |-> 0, m |-> 0, d |-> 0]

IsLeap(y) == y % 4 = 0 /\ (y % 100 # 0 \/ y % 400 = 0)

DaysIn(m, y) ==
    IF m = 2 THEN (IF IsLeap(y) THEN 29 ELSE 28)
    ELSE IF m \in {4, 6, 9, 11} THEN 30 ELSE 31

\* the date of three digit fields: %m is 1..12 and %d is 1..31 in one or two
\* digits, %Y is exactly four digits, and the day exists in that month
DateOfFields(ytext, mtext, dtext) ==
    LET fieldsOk ==
            /\ AllDigits(ytext) /\ Len(ytext) = 4
            /\ AllDigits(mtext) /\ Len(mtext) \in {1, 2}
            /\ AllDigits(dtext) /\ Len(dtext) \in {1, 2}
        y == NatOf(ytext)
        m == NatOf(mtext)
        d == NatOf(dtext)
    IN  IF fieldsOk /\ y >= 1 /\ m \in 1..12 /\ d >= 1 /\ d <= DaysIn(m, y)
        THEN [ok |-> TRUE, date |-> [y |-> y, m |-> m, d |-> d]]
        ELSE [ok |-> FALSE, date |-> NoDate]

\* strptime(text, "%m/%d/%Y")
StrptimeMDY(text) ==
    LET parts == SplitOn(text, "/")
    IN  IF Len(parts) = 3
        THEN DateOfFields(parts[3], parts[1], parts[2])
        ELSE [ok |-> FALSE, date |-> NoDate]

\* strptime(text, "%Y-%m-%d")
StrptimeISO(text) ==
    LET parts == SplitOn(text, "-")
    IN  IF Len(parts) = 3
        THEN DateOfFields(parts[1], parts[2], parts[3])
        ELSE [ok |-> FALSE, date |-> NoDate]

---------------------------------------------------------------------------
(* Text constants of the code.                                             *)

TransDate ==
    <<"T", "r", "a", "n", "s", ".", " ", "D", "a", "t", "e">>
Description ==
    <<"D", "e", "s", "c", "r", "i", "p", "t", "i", "o", "n">>
Amount ==
    <<"A", "m", "o", "u", "n", "t">>
Category ==
    <<"C", "a", "t", "e", "g", "o", "r", "y">>
Date ==
    <<"D", "a", "t", "e">>
Withdrawal ==
    <<"W", "i", "t", "h", "d", "r", "a", "w", "a", "l">>
Deposit ==
    <<"D", "e", "p", "o", "s", "i", "t">>
Account ==
    <<"A", "c", "c", "o", "u", "n", "t">>
CostCenter ==
    <<"C", "o", "s", "t", " ", "C", "e", "n", "t", "e", "r">>
SpendCategories ==
    <<"S", "p", "e", "n", "d", " ", "C", "a", "t", "e", "g", "o", "r", "i", "e", "s">>
Notes ==
    <<"N", "o", "t", "e", "s">>
Uncategorized ==
    <<"U", "n", "c", "a", "t", "e", "g", "o", "r", "i", "z", "e", "d">>
DiscoverAccount ==
    <<"D", "i", "s", "c", "o", "v", "e", "r">>
SchwabAccount ==
    <<"S", "c", "h", "w", "a", "b", " ", "C", "h", "e", "c", "k", "i", "n", "g">>

\* the expected_headers_map of each loader, in the order the code lists it
DiscoverHeaders ==
    << [key |-> "date", display |-> TransDate],
       [key |-> "description", display |-> Description],
       [key |-> "amount", display |-> Amount],
       [key |-> "category", display |-> Category] >>

SchwabHeaders ==
    << [key |-> "date", display |-> Date],
       [key |-> "description", display |-> Description],
       [key |-> "withdrawal", display |-> Withdrawal],
       [key |-> "deposit", display |-> Deposit] >>

CashCanvasHeaders ==
    << [key |-> "date", display |-> Date],
       [key |-> "description", display |-> Description],
       [key |-> "amount", display |-> Amount],
       [key |-> "account", display |-> Account],
       [key |-> "cost_center", display |-> CostCenter],
       [key |-> "spend_categories", display |-> SpendCategories],
       [key |-> "notes", display |-> Notes] >>

ExpectedHeaders(p) ==
    IF p = "discover" THEN DiscoverHeaders
    ELSE IF p = "schwab" THEN SchwabHeaders
    ELSE CashCanvasHeaders

\* field length limits of TransactionBase
DescriptionMax == 200
AccountMax == 50
NotesMax == 200
\* the loaders put at most this many row errors in the aggregate message
ErrorCap == 20

---------------------------------------------------------------------------
(* Header Resolver (parsers.py).                                           *)

Range(f) == {f[i] : i \in DOMAIN f}

\* a validation that reports the first missing header only
ValidateHeadersFirstMissing(expected_headers, actual_headers) ==
    LET normalized_actual ==
            {CleanHeader(actual_headers[i]) :
                i \in {j \in 1..Len(actual_headers) : actual_headers[j] # <<>>}}
        missing == SelectSeq(expected_headers,
                             LAMBDA h : CleanHeader(h) \notin normalized_actual)
    IN  IF missing = <<>> THEN <<>> ELSE <<missing[1]>>

\* validate_headers: the expected display names that no non-empty actual
\* header equals after clean_header, in the order of expected_headers
ValidateHeaders(expected_headers, actual_headers) ==
    LET normalized_actual ==
            {CleanHeader(actual_headers[i]) :
                i \in {j \in 1..Len(actual_headers) : actual_headers[j] # <<>>}}
    IN  SelectSeq(expected_headers,
                  LAMBDA h : CleanHeader(h) \notin normalized_actual)

\* header_mapping[clean]: the dict comprehension keeps the last header that
\* cleans to the key
HeaderMappingGet(original_headers, clean) ==
    LET hits == {i \in 1..Len(original_headers) :
                    CleanHeader(original_headers[i]) = clean}
    IN  original_headers[CHOOSE i \in hits : \A j \in hits : j <= i]

\* _parse_headers: kind "ok" with the mapping logical key -> header text,
\* or the ValueError raised (EmptyFile, HeaderMismatch with its two lists)
ParseHeaders(names, expected) ==
    IF names = <<>>
    THEN [kind |-> "EmptyFile", missing |-> <<>>, found |-> <<>>, map |-> <<>>]
    ELSE LET original_headers == [i \in 1..Len(names) |-> Strip(names[i])]
             displays == [i \in 1..Len(expected) |-> expected[i].display]
             missing  == ValidateHeaders(displays, original_headers)
         IN  IF missing # <<>>
             THEN [kind |-> "HeaderMismatch", missing |-> missing,
                   found |-> original_headers, map |-> <<>>]
             ELSE [kind |-> "ok", missing |-> <<>>, found |-> <<>>,
                   map |-> [i \in 1..Len(expected) |->
                              [key |-> expected[i].key,
                               header |-> HeaderMappingGet(original_headers,
                                             CleanHeader(expected[i].display))]]]

\* headers[key] of the mapping _parse_headers returned
HeaderOf(map, key) ==
    (CHOOSE e \in Range(map) : e.key = key).header

---------------------------------------------------------------------------
(* csv.DictReader rows.  A row is the list of its cells; the reader keys   *)
(* them by the raw fieldnames, a later duplicate name winning, and gives   *)
(* None for the names a short row has no cell for.                         *)

HasKey(names, key) == \E i \in 1..Len(names) : names[i] = key

\* row[key] for a key of the row
RowValue(names, cells, key) ==
    LET hits == {i \in 1..Len(names) : names[i] = key}
        last == CHOOSE i \in hits : \A j \in hits : j <= i
    IN  IF last <= Len(cells) THEN cells[last] ELSE None

\* row[key].strip(): KeyError for a missing key, AttributeError for None
StripCell(names, cells, key) ==
    IF ~HasKey(names, key) THEN [ok |-> FALSE, v |-> <<>>, msg |-> "KeyError"]
    ELSE IF RowValue(names, cells, key) = None
         THEN [ok |-> FALSE, v |-> <<>>, msg |-> "AttributeError"]
         ELSE [ok |-> TRUE, v |-> Strip(RowValue(names, cells, key)), msg |-> ""]

\* row.get(key, "").strip()
StripCellOrEmpty(names, cells, key) ==
    IF ~HasKey(names, key) THEN [ok |-> TRUE, v |-> <<>>, msg |-> ""]
    ELSE StripCell(names, cells, key)

---------------------------------------------------------------------------
(* Schema validators (schemas.py).                                         *)

\* the value None where a list of names is optional
NullList == <<None>>

\* the name list passed through without list(dict.fromkeys(...))
DedupKeepAll(names) == names

\* list(dict.fromkeys(names)): duplicates dropped, first occurrences kept
RECURSIVE Dedup(_)
Dedup(names) ==
    IF names = <<>> THEN <<>>
    ELSE LET front == Dedup(SubSeq(names, 1, Len(names) - 1))
             last  == names[Len(names)]
         IN  IF last \in Range(front) THEN front ELSE Append(front, last)

\* TransactionBase.strip_and_validate, then the field's length limits
strip_and_validate(v, max_length) ==
    IF v = None \/ v = <<>> \/ Strip(v) = <<>> THEN [ok |-> FALSE, v |-> <<>>]
    ELSE [ok |-> Len(Strip(v)) >= 1 /\ Len(Strip(v)) <= max_length,
          v  |-> Strip(v)]

\* TransactionBase.strip_notes, then max_length
strip_notes(v) ==
    IF v = None \/ Strip(v) = <<>> THEN [ok |-> TRUE, v |-> None]
    ELSE [ok |-> Len(Strip(v)) <= NotesMax, v |-> Strip(v)]

\* TransactionCreate.default_cost_center
default_cost_center(v) ==
    IF v = None \/ v = <<>> \/ Strip(v) = <<>> THEN Uncategorized ELSE Strip(v)

\* TransactionCreate.default_spend_categories
default_spend_categories(v) ==
    IF v = NullList \/ v = <<>> \/ \A i \in 1..Len(v) : Strip(v[i]) = <<>>
    THEN <<Uncategorized>>
    ELSE LET stripped == [i \in 1..Len(v) |-> Strip(v[i])]
             cleaned  == SelectSeq(stripped, LAMBDA name : name # <<>>)
         IN  Dedup(cleaned)

\* schemas.TransactionCreate(**txn_data): whether validation passes, and the
\* validated model it builds
TransactionCreate(txn_data) ==
    LET description == strip_and_validate(txn_data.description, DescriptionMax)
        account     == strip_and_validate(txn_data.account, AccountMax)
        notes       == strip_notes(txn_data.notes)
    IN  [ok    |-> description.ok /\ account.ok /\ notes.ok,
         model |-> [date |-> txn_data.date,
                    description |-> description.v,
                    amount |-> txn_data.amount,
                    account |-> account.v,
                    notes |-> notes.v,
                    cost_center_name |-> default_cost_center(txn_data.cost_center_name),
                    spend_category_names |->
                        default_spend_categories(txn_data.spend_category_names)]]

\* _validate_transaction_data: TRUE when it returns, FALSE when it raises;
\* the validated model is built and dropped
ValidateTransactionData(txn_data) == TransactionCreate(txn_data).ok

---------------------------------------------------------------------------
(* Institution parsers (parsers.py): the body of each loader's row loop.   *)
(* A decoded row is [ok, txn, msg]: the txn_data dict appended to          *)
(* transactions, or the message of the exception the except clause caught. *)

NoTxn ==
    [date |-> NoDate, description |-> <<>>, cost_center_name |-> None,
     spend_category_names |-> <<>>, amount |-> 0, account |-> <<>>, notes |-> None]

RowError(msg) == [ok |-> FALSE, txn |-> NoTxn, msg |-> msg]

RowAccepted(txn_data) ==
    IF ValidateTransactionData(txn_data)
    THEN [ok |-> TRUE, txn |-> txn_data, msg |-> ""]
    ELSE RowError("validation failed")

\* the Discover amount carried over with the sign of the CSV
DiscoverLedgerAmountAsGiven(raw_amount) == raw_amount

\* amount = -raw_amount: CSV expenses are positive, ledger expenses negative
DiscoverLedgerAmount(raw_amount) == 0 - raw_amount

\* load_discover_csv, one row
DiscoverRow(names, map, cells) ==
    LET date_cell == StripCell(names, cells, HeaderOf(map, "date"))
        desc_cell == StripCell(names, cells, HeaderOf(map, "description"))
        amt_cell  == StripCell(names, cells, HeaderOf(map, "amount"))
        cat_cell  == StripCell(names, cells, HeaderOf(map, "category"))
        raw_amount == clean_currency_string(amt_cell.v)
    IN  IF ~date_cell.ok THEN RowError(date_cell.msg)
        ELSE IF date_cell.v = <<>> THEN RowError("Date is empty")
        ELSE IF ~StrptimeMDY(date_cell.v).ok THEN RowError("time data does not match format")
        ELSE IF ~desc_cell.ok THEN RowError(desc_cell.msg)
        ELSE IF desc_cell.v = <<>> THEN RowError("Description is empty")
        ELSE IF ~amt_cell.ok THEN RowError(amt_cell.msg)
        ELSE IF amt_cell.v = <<>> THEN RowError("Amount is empty")
        ELSE IF ~raw_amount.ok THEN RowError(raw_amount.msg)
        ELSE IF ~cat_cell.ok THEN RowError(cat_cell.msg)
        ELSE RowAccepted(
                [date |-> StrptimeMDY(date_cell.v).date,
                 description |-> desc_cell.v,
                 cost_center_name |->
                     IF cat_cell.v # <<>> THEN cat_cell.v ELSE Uncategorized,
                 spend_category_names |-> <<>>,
                 amount |-> DiscoverLedgerAmount(raw_amount.v),
                 account |-> DiscoverAccount,
                 notes |-> None])

\* the Schwab amount taken from whichever column is populated, unsigned
SchwabLedgerAmountUnsigned(withdrawal_str, value) == value

\* the if/elif on withdrawal_str and deposit_str: a withdrawal is negated,
\* a deposit kept; value is the cleaned text of the column the chain chose
SchwabLedgerAmount(withdrawal_str, value) ==
    IF withdrawal_str # <<>> THEN 0 - value ELSE value

\* load_schwab_csv, one row
SchwabRow(names, map, cells) ==
    LET date_cell == StripCell(names, cells, HeaderOf(map, "date"))
        desc_cell == StripCell(names, cells, HeaderOf(map, "description"))
        withdrawal == StripCellOrEmpty(names, cells, HeaderOf(map, "withdrawal"))
        deposit    == StripCellOrEmpty(names, cells, HeaderOf(map, "deposit"))
        money == IF withdrawal.v # <<>> THEN clean_currency_string(withdrawal.v)
                 ELSE clean_currency_string(deposit.v)
    IN  IF ~date_cell.ok THEN RowError(date_cell.msg)
        ELSE IF date_cell.v = <<>> THEN RowError("Date is empty")
        ELSE IF ~StrptimeMDY(date_cell.v).ok THEN RowError("time data does not match format")
        ELSE IF ~desc_cell.ok THEN RowError(desc_cell.msg)
        ELSE IF desc_cell.v = <<>> THEN RowError("Description is empty")
        ELSE IF ~withdrawal.ok THEN RowError(withdrawal.msg)
        ELSE IF ~deposit.ok THEN RowError(deposit.msg)
        ELSE IF withdrawal.v = <<>> /\ deposit.v = <<>>
             THEN RowError("Both Withdrawal and Deposit are empty")
        ELSE IF ~money.ok THEN RowError(money.msg)
        ELSE RowAccepted(
                [date |-> StrptimeMDY(date_cell.v).date,
                 description |-> desc_cell.v,
                 amount |-> SchwabLedgerAmount(withdrawal.v, money.v),
                 account |-> SchwabAccount,
                 cost_center_name |-> None,
                 spend_category_names |-> <<>>,
                 notes |-> None])

\* the spend-category loop of load_cashcanvas_csv: split on commas, strip
\* each piece, keep the non-empty ones
SplitCategories(spend_categories_str) ==
    IF spend_categories_str # <<>> /\ Lower(spend_categories_str) # Lower(Uncategorized)
    THEN LET raw_categories == SplitOn(spend_categories_str, ",")
             stripped == [i \in 1..Len(raw_categories) |-> Strip(raw_categories[i])]
         IN  SelectSeq(stripped, LAMBDA cat : cat # <<>>)
    ELSE <<>>

\* load_cashcanvas_csv, one row
CashCanvasRow(names, map, cells) ==
    LET date_cell == StripCell(names, cells, HeaderOf(map, "date"))
        desc_cell == StripCell(names, cells, HeaderOf(map, "description"))
        amt_cell  == StripCell(names, cells, HeaderOf(map, "amount"))
        acct_cell == StripCell(names, cells, HeaderOf(map, "account"))
        cc_cell   == StripCell(names, cells, HeaderOf(map, "cost_center"))
        cats_cell == StripCell(names, cells, HeaderOf(map, "spend_categories"))
        notes_cell == StripCell(names, cells, HeaderOf(map, "notes"))
        has_notes == HasKey(names, HeaderOf(map, "notes"))
        date_obj == IF StrptimeISO(date_cell.v).ok THEN StrptimeISO(date_cell.v)
                    ELSE StrptimeMDY(date_cell.v)
        amount == clean_currency_string(amt_cell.v)
    IN  IF ~date_cell.ok THEN RowError(date_cell.msg)
        ELSE IF date_cell.v = <<>> THEN RowError("Date is empty")
        ELSE IF ~date_obj.ok THEN RowError("time data does not match format")
        ELSE IF ~desc_cell.ok THEN RowError(desc_cell.msg)
        ELSE IF desc_cell.v = <<>> THEN RowError("Description is empty")
        ELSE IF ~amt_cell.ok THEN RowError(amt_cell.msg)
        ELSE IF amt_cell.v = <<>> THEN RowError("Amount is empty")
        ELSE IF ~amount.ok THEN RowError(amount.msg)
        ELSE IF ~acct_cell.ok THEN RowError(acct_cell.msg)
        ELSE IF acct_cell.v = <<>> THEN RowError("Account is empty")
        ELSE IF ~cc_cell.ok THEN RowError(cc_cell.msg)
        ELSE IF ~cats_cell.ok THEN RowError(cats_cell.msg)
        ELSE IF has_notes /\ ~notes_cell.ok THEN RowError(notes_cell.msg)
        ELSE RowAccepted(
                [date |-> date_obj.date,
                 description |-> desc_cell.v,
                 amount |-> amount.v,
                 account |-> acct_cell.v,
                 cost_center_name |->
                     IF cc_cell.v = <<>> \/ Lower(cc_cell.v) = Lower(Uncategorized)
                     THEN None ELSE cc_cell.v,
                 spend_category_names |-> SplitCategories(cats_cell.v),
                 notes |-> IF has_notes /\ notes_cell.v # <<>>
                           THEN notes_cell.v ELSE None])

\* the row loop body of the loader parse_csv chose
DecodeRow(p, names, map, cells) ==
    IF p = "discover" THEN DiscoverRow(names, map, cells)
    ELSE IF p = "schwab" THEN SchwabRow(names, map, cells)
    ELSE CashCanvasRow(names, map, cells)

---------------------------------------------------------------------------
(* Persistence helpers (crud/operations.py).  A table is the list of its   *)
(* rows [id, name] in insertion order; a new row takes the next free id.   *)

NextId(table) ==
    IF table = <<>> THEN 1
    ELSE 1 + (CHOOSE n \in {table[i].id : i \in 1..Len(table)} :
                 \A i \in 1..Len(table) : table[i].id <= n)

\* _get_or_create_spend_category: [table, cat]
GetOrCreateSpendCategory(table, given) ==
    LET name == IF given = None \/ given = <<>> \/ Strip(given) = <<>>
                THEN Uncategorized ELSE given
        hits == {i \in 1..Len(table) : table[i].name = name}
    IN  IF hits # {}
        THEN [table |-> table,
              cat   |-> table[CHOOSE i \in hits : \A j \in hits : i <= j]]
        ELSE [table |-> Append(table, [id |-> NextId(table), name |-> name]),
              cat   |-> [id |-> NextId(table), name |-> name]]

\* the for loop of _resolve_spend_categories from position i on
RECURSIVE ResolveLoop(_, _, _, _, _)
ResolveLoop(table, names, i, categories, seen) ==
    IF i > Len(names) THEN [table |-> table, categories |-> categories]
    ELSE LET name == Strip(names[i])
         IN  IF name = <<>> \/ name \in seen
             THEN ResolveLoop(table, names, i + 1, categories, seen)
             ELSE LET got == GetOrCreateSpendCategory(table, name)
                  IN  ResolveLoop(got.table, names, i + 1,
                                  Append(categories, got.cat), seen \cup {name})

\* _resolve_spend_categories: [table, categories]
ResolveSpendCategories(table, given) ==
    LET names == IF given = NullList \/ given = <<>> THEN <<Uncategorized>> ELSE given
        looped == ResolveLoop(table, names, 1, <<>>, {})
    IN  IF looped.categories # <<>> THEN looped
        ELSE LET got == GetOrCreateSpendCategory(looped.table, Uncategorized)
             IN  [table |-> got.table, categories |-> <<got.cat>>]

NamesOf(categories) == [i \in 1..Len(categories) |-> categories[i].name]

---------------------------------------------------------------------------
(* Inputs of the model.                                                    *)

\* institution form fields
TagSamples ==
    { <<"d", "i", "s", "c", "o", "v", "e", "r">>,
      <<" ", "D", "i", "s", "c", "o", "v", "e", "r", "\t">>,
      <<"s", "c", "h", "w", "a", "b">>,
      <<"S", "c", "h", "w", "a", "b", " ", "C", "h", "e", "c", "k", "i", "n", "g">>,
      <<" ", "C", "A", "S", "H", "C", "A", "N", "V", "A", "S", " ">>,
      <<"s", "c", "h", "w", "a", "b", " ", " ", "c", "h", "e", "c", "k", "i", "n", "g">>,
      <<"s", "c", "h", "w", "a", "b", "c", "h", "e", "c", "k", "i", "n", "g">>,
      <<"d", "i", "s", " ", "c", "o", "v", "e", "r">>,
      <<"c", "a", "s", "h", " ", "c", "a", "n", "v", "a", "s">>,
      <<"c", "h", "a", "s", "e">>,
      <<>> }

\* the header cells of a well-formed export of each institution
DiscoverFieldnames ==
    << <<"T", "r", "a", "n", "s", ".", " ", "D", "a", "t", "e">>, <<"D", "e", "s", "c", "r", "i", "p", "t", "i", "o", "n">>, <<"A", "m", "o", "u", "n", "t">>, <<"C", "a", "t", "e", "g", "o", "r", "y">> >>
SchwabFieldnames ==
    << <<"D", "a", "t", "e">>, <<"D", "e", "s", "c", "r", "i", "p", "t", "i", "o", "n">>, <<"W", "i", "t", "h", "d", "r", "a", "w", "a", "l">>, <<"D", "e", "p", "o", "s", "i", "t">> >>
CashCanvasFieldnames ==
    << <<"D", "a", "t", "e">>, <<"D", "e", "s", "c", "r", "i", "p", "t", "i", "o", "n">>, <<"A", "m", "o", "u", "n", "t">>, <<"A", "c", "c", "o", "u", "n", "t">>, <<"C", "o", "s", "t", " ", "C", "e", "n", "t", "e", "r">>, <<"S", "p", "e", "n", "d", " ", "C", "a", "t", "e", "g", "o", "r", "i", "e", "s">>, <<"N", "o", "t", "e", "s">> >>

ExactFieldnames(p) ==
    IF p = "discover" THEN DiscoverFieldnames
    ELSE IF p = "schwab" THEN SchwabFieldnames
    ELSE CashCanvasFieldnames

\* header rows: exact, with inner noise and an extra column, with outer
\* whitespace, lower-cased, a column short, and the empty file
DiscoverFieldnameSamples ==
    { DiscoverFieldnames,
      << <<"T", "r", "a", "n", "s", ".", " ", " ", "D", "a", "t", "e", BOM>>, <<"D", "e", "s", "c", "r", "i", "p", "\t", "t", "i", "o", "n">>, <<"A", "m", "o", "u", "n", "t">>, <<"C", "a", "t", "e", "g", "o", "r", "y">>, <<"M", "e", "m", "o">> >>,
      << <<" ", "T", "r", "a", "n", "s", ".", " ", " ", "D", "a", "t", "e", BOM>>, <<"D", "e", "s", "c", "r", "i", "p", "t", "i", "o", "n">>, <<"A", "m", "o", "u", "n", "t">>, <<"C", "a", "t", "e", "g", "o", "r", "y">> >>,
      << <<"t", "r", "a", "n", "s", ".", " ", "d", "a", "t", "e">>, <<"D", "e", "s", "c", "r", "i", "p", "t", "i", "o", "n">>, <<"A", "m", "o", "u", "n", "t">>, <<"C", "a", "t", "e", "g", "o", "r", "y">> >>,
      << <<"T", "r", "a", "n", "s", ".", " ", "D", "a", "t", "e">>, <<"D", "e", "s", "c", "r", "i", "p", "t", "i", "o", "n">>, <<"A", "m", "o", "u", "n", "t">> >>,
      <<>> }

SchwabFieldnameSamples ==
    { SchwabFieldnames,
      << <<"D", "a", "t", "e">>, <<"D", "e", "s", "c", "r", "i", "p", " ", "t", "i", "o", "n">>, <<"W", "i", "t", "h", BOMswapped, "d", "r", "a", "w", "a", "l">>, <<"D", "e", "p", "o", "s", "i", "t">>, <<"R", "u", "n", "n", "i", "n", "g", "B", "a", "l", "a", "n", "c", "e">> >>,
      << <<"D", "a", "t", "e">>, <<"D", "e", "s", "c", "r", "i", "p", "t", "i", "o", "n">>, <<"W", "i", "t", "h", "d", "r", "a", "w", "a", "l", " ">>, <<"D", "e", "p", "o", "s", "i", "t">> >>,
      << <<"D", "a", "t", "e">>, <<"D", "e", "s", "c", "r", "i", "p", "t", "i", "o", "n">>, <<"D", "e", "p", "o", "s", "i", "t">> >>,
      <<>> }

CashCanvasFieldnameSamples ==
    { CashCanvasFieldnames,
      << <<"D", "a", "t", "e">>, <<"D", "e", "s", "c", "r", "i", "p", "t", "i", "o", "n">>, <<"A", "m", "o", "u", "n", "t">>, <<"A", "c", "c", "o", "u", "n", "t">>, <<"C", "o", "s", "t", "C", "e", "n", "t", "e", "r">>, <<"S", "p", "e", "n", "d", " ", " ", "C", "a", "t", "e", "g", "o", "r", "i", "e", "s">>, <<"N", "o", "t", "e", "s">> >>,
      << <<"D", "a", "t", "e">>, <<"D", "e", "s", "c", "r", "i", "p", "t", "i", "o", "n">>, <<"A", "m", "o", "u", "n", "t">>, <<"A", "c", "c", "o", "u", "n", "t">>, <<"C", "o", "s", "t", " ", "C", "e", "n", "t", "e", "r">>, <<"S", "p", "e", "n", "d", " ", "C", "a", "t", "e", "g", "o", "r", "i", "e", "s">>, <<" ", "N", "o", "t", "e", "s">> >>,
      << <<"D", "a", "t", "e">>, <<"D", "e", "s", "c", "r", "i", "p", "t", "i", "o", "n">>, <<"A", "m", "o", "u", "n", "t">>, <<"A", "c", "c", "o", "u", "n", "t">>, <<"C", "o", "s", "t", " ", "C", "e", "n", "t", "e", "r">>, <<"S", "p", "e", "n", "d", " ", "C", "a", "t", "e", "g", "o", "r", "i", "e", "s">> >>,
      <<>> }

FieldnameSamples(p) ==
    IF p = "discover" THEN DiscoverFieldnameSamples
    ELSE IF p = "schwab" THEN SchwabFieldnameSamples
    ELSE CashCanvasFieldnameSamples

\* texts one character longer than a field's limit
LongDescription == Repeat("a", DescriptionMax + 1)
LongAccount == Repeat("a", AccountMax + 1)
LongNotes == Repeat("a", NotesMax + 1)

\* cells of the wide row universe, column by column
DateCells ==
    { <<"0", "1", "/", "1", "5", "/", "2", "0", "2", "4">>,
      <<"1", "/", "5", "/", "2", "0", "2", "4">>,
      <<"0", "2", "/", "3", "0", "/", "2", "0", "2", "4">>,
      <<"2", "0", "2", "4", "-", "0", "1", "-", "1", "5">>,
      <<>> }

DescriptionCells ==
    { <<"C", "o", "f", "f", "e", "e">>,
      <<" ", "R", "e", "f", "u", "n", "d", " ">>,
      <<" ">>,
      LongDescription }

AmountCells ==
    { <<"1", "2", ".", "5", "0">>,
      <<"-", "2", "0", ".", "0", "0">>,
      <<"$", "1", ",", "2", "5", "0", ".", "0", "0">>,
      <<"0">>,
      <<"x">>,
      <<"1", "-", "2">>,
      <<>> }

CategoryCells ==
    { <<"F", "o", "o", "d">>,
      <<" ", "D", "i", "n", "i", "n", "g", " ", "O", "u", "t", " ">>,
      <<>> }

SchwabDateCells ==
    { <<"0", "1", "/", "1", "5", "/", "2", "0", "2", "4">>,
      <<"1", "3", "/", "0", "1", "/", "2", "0", "2", "4">>,
      <<>> }

SchwabDescriptionCells ==
    { <<"P", "a", "y", "c", "h", "e", "c", "k">>,
      <<" ">> }

SchwabMoneyCells ==
    { <<"1", "0", "0", ".", "0", "0">>,
      <<"$", "1", ",", "0", "0", "0", ".", "5", "0">>,
      <<"-", "5">>,
      <<"a", "b", "c">>,
      <<" ">>,
      <<>> }

CashCanvasDateCells ==
    { <<"2", "0", "2", "4", "-", "0", "1", "-", "1", "5">>,
      <<"0", "1", "/", "1", "5", "/", "2", "0", "2", "4">>,
      <<"2", "0", "2", "4", "-", "0", "2", "-", "3", "0">>,
      <<>> }

CashCanvasDescriptionCells ==
    { <<"C", "o", "f", "f", "e", "e">>,
      <<" ">> }

CashCanvasAmountCells ==
    { <<"-", "1", "2", ".", "5", "0">>,
      <<"2", "0", ".", "0", "0">>,
      <<"x">> }

AccountCells ==
    { <<"C", "h", "e", "c", "k", "i", "n", "g">>,
      <<>>,
      LongAccount }

CostCenterCells ==
    { <<"F", "o", "o", "d">>,
      <<" ", "U", "N", "C", "A", "T", "E", "G", "O", "R", "I", "Z", "E", "D">>,
      <<"U", "n", "c", "a", "t", "e", "g", "o", "r", "i", "z", "e", "d">>,
      <<>> }

SpendCategoriesCells ==
    { <<"F", "o", "o", "d", ",", " ", "F", "o", "o", "d", ",", " ", "T", "r", "a", "v", "e", "l">>,
      <<"F", "o", "o", "d", ",", ",", "T", "r", "a", "v", "e", "l">>,
      <<" ", "F", "o", "o", "d", " ">>,
      <<"u", "n", "c", "a", "t", "e", "g", "o", "r", "i", "z", "e", "d", ",", " ", "F", "o", "o", "d">>,
      <<"U", "n", "c", "a", "t", "e", "g", "o", "r", "i", "z", "e", "d">>,
      <<",">>,
      <<>> }

NotesCells ==
    { <<"m", "e", "m", "o">>,
      <<>>,
      LongNotes }

DiscoverWideRows ==
    {<<d, t, a, c>> : d \in DateCells, t \in DescriptionCells,
                      a \in AmountCells, c \in CategoryCells}
    \cup {SubSeq(<<d, t, a>>, 1, n) : d \in DateCells, t \in DescriptionCells,
                                      a \in AmountCells, n \in 1..3}

SchwabWideRows ==
    {<<d, t, w, p>> : d \in SchwabDateCells, t \in SchwabDescriptionCells,
                      w \in SchwabMoneyCells, p \in SchwabMoneyCells}
    \cup {SubSeq(<<d, t, w>>, 1, n) : d \in SchwabDateCells,
              t \in SchwabDescriptionCells, w \in SchwabMoneyCells, n \in 2..3}

CashCanvasWideRows ==
    {<<d, t, a, k, c, s, n>> :
        d \in CashCanvasDateCells, t \in CashCanvasDescriptionCells,
        a \in CashCanvasAmountCells, k \in AccountCells, c \in CostCenterCells,
        s \in SpendCategoriesCells, n \in NotesCells}

\* rows of the files of up to MaxRows rows: two valid, one invalid
DiscoverNarrowRows ==
    { << <<"0", "1", "/", "1", "5", "/", "2", "0", "2", "4">>, <<"C", "o", "f", "f", "e", "e">>, <<"1", "2", ".", "5", "0">>, <<"F", "o", "o", "d">> >>,
      << <<"1", "/", "5", "/", "2", "0", "2", "4">>, <<" ", "R", "e", "f", "u", "n", "d", " ">>, <<"-", "2", "0", ".", "0", "0">>, <<>> >>,
      << <<"0", "2", "/", "3", "0", "/", "2", "0", "2", "4">>, <<"C", "o", "f", "f", "e", "e">>, <<"1", "2", ".", "5", "0">>, <<"F", "o", "o", "d">> >> }

\* a deposit, a withdrawal, and neither
SchwabNarrowRows ==
    { << <<"0", "1", "/", "1", "5", "/", "2", "0", "2", "4">>, <<"P", "a", "y", "c", "h", "e", "c", "k">>, <<>>, <<"$", "1", ",", "0", "0", "0", ".", "5", "0">> >>,
      << <<"0", "1", "/", "1", "5", "/", "2", "0", "2", "4">>, <<"R", "e", "n", "t">>, <<"1", "0", "0", ".", "0", "0">>, <<>> >>,
      << <<"0", "1", "/", "1", "5", "/", "2", "0", "2", "4">>, <<"R", "e", "n", "t">>, <<>>, <<>> >> }

\* two valid, one invalid
CashCanvasNarrowRows ==
    { << <<"2", "0", "2", "4", "-", "0", "1", "-", "1", "5">>, <<"C", "o", "f", "f", "e", "e">>, <<"-", "1", "2", ".", "5", "0">>, <<"C", "h", "e", "c", "k", "i", "n", "g">>, <<"F", "o", "o", "d">>, <<"F", "o", "o", "d", ",", " ", "F", "o", "o", "d", ",", " ", "T", "r", "a", "v", "e", "l">>, <<"m", "e", "m", "o">> >>,
      << <<"0", "1", "/", "1", "5", "/", "2", "0", "2", "4">>, <<"P", "a", "y", "c", "h", "e", "c", "k">>, <<"2", "0", ".", "0", "0">>, <<"C", "h", "e", "c", "k", "i", "n", "g">>, <<>>, <<"U", "n", "c", "a", "t", "e", "g", "o", "r", "i", "z", "e", "d">>, <<>> >>,
      << <<"2", "0", "2", "4", "-", "0", "2", "-", "3", "0">>, <<"C", "o", "f", "f", "e", "e">>, <<"-", "1", "2", ".", "5", "0">>, <<"C", "h", "e", "c", "k", "i", "n", "g">>, <<"F", "o", "o", "d">>, <<>>, <<>> >> }

WideRows(p) ==
    IF p = "discover" THEN DiscoverWideRows
    ELSE IF p = "schwab" THEN SchwabWideRows
    ELSE CashCanvasWideRows

NarrowRows(p) ==
    IF p = "discover" THEN DiscoverNarrowRows
    ELSE IF p = "schwab" THEN SchwabNarrowRows
    ELSE CashCanvasNarrowRows

RECURSIVE ListsUpTo(_, _)
ListsUpTo(S, n) ==
    IF n = 0 THEN {<<>>}
    ELSE LET shorter == ListsUpTo(S, n - 1)
         IN  shorter \cup {Append(l, x) : l \in shorter, x \in S}

\* the data rows of the files a loader may be given: up to MaxRows rows
DiscoverFiles == ListsUpTo(DiscoverNarrowRows, MaxRows)
SchwabFiles == ListsUpTo(SchwabNarrowRows, MaxRows)
CashCanvasFiles == ListsUpTo(CashCanvasNarrowRows, MaxRows)

\* an empty file has no header row and no data rows
FileRowSamples(p, names) ==
    IF names = <<>> THEN {<<>>}
    ELSE IF p = "discover" THEN DiscoverFiles
    ELSE IF p = "schwab" THEN SchwabFiles
    ELSE CashCanvasFiles

---------------------------------------------------------------------------
(* The upload request: upload_csv (api/transactions.py) calling parse_csv  *)
(* and the loader it dispatches to (parsers.py).  The reader is a lazy     *)
(* iterator: the header row is read when _parse_headers asks for           *)
(* reader.fieldnames, a data row each time the for loop asks for the next  *)
(* (blank lines are passed over by the reader and are not rows).           *)

\* enumerate(reader, start=2)
EnumerateStart == 2

NoError == [kind |-> "none", count |-> 0, shown |-> <<>>, missing |-> <<>>, found |-> <<>>]

NoResponse == [status |-> 0, count |-> 0, detail |-> NoError]

PipeInit ==
    /\ pc = "idle"
    /\ form_institution = <<>>
    /\ institution = <<>>
    /\ parser = ""
    /\ fieldnames = <<>>
    /\ headers = <<>>
    /\ file_rows = <<>>
    /\ rows_read = 0
    /\ transactions = <<>>
    /\ errors = <<>>
    /\ raised = NoError
    /\ result = <<>>
    /\ db = <<>>
    /\ save_calls = 0
    /\ response = NoResponse

\* upload_csv up to the call of parse_csv: the file name and size checks
UploadCsv ==
    /\ pc = "idle"
    /\ \E tag \in TagSamples, named_csv \in BOOLEAN, oversize \in BOOLEAN :
          /\ form_institution' = tag
          /\ IF ~named_csv
             THEN /\ response' = [status |-> 400, count |-> 0, detail |-> NoError]
                  /\ pc' = "rejected"
             ELSE IF oversize
             THEN /\ response' = [status |-> 413, count |-> 0, detail |-> NoError]
                  /\ pc' = "rejected"
             ELSE /\ pc' = "parse_csv"
                  /\ UNCHANGED response
    /\ UNCHANGED <<institution, parser, fieldnames, headers, file_rows, rows_read,
                   transactions, errors, raised, result, db, save_calls>>
    /\ UNCHANGED <<resolveVars, headerVars, analyticsVars, tripVars, storeVars, filterVars>>

\* the tag trimmed but not lower-cased
NormalizeInstitutionNoFold(tag) == Strip(tag)

\* institution.lower().strip(), the first statement of parse_csv
NormalizeInstitution(tag) == Strip(Lower(tag))

\* the if/elif chain of parse_csv on the normalized name
Route(name) ==
    IF name = <<"d", "i", "s", "c", "o", "v", "e", "r">> THEN "discover"
    ELSE IF name \in {<<"s", "c", "h", "w", "a", "b">>,
                      <<"s", "c", "h", "w", "a", "b", " ",
                        "c", "h", "e", "c", "k", "i", "n", "g">>}
         THEN "schwab"
    ELSE IF name = <<"c", "a", "s", "h", "c", "a", "n", "v", "a", "s">>
         THEN "cashcanvas"
    ELSE "unknown"

\* a parse_csv whose else branch falls back on the Discover loader
ParseCsvFallback ==
    /\ pc = "parse_csv"
    /\ institution' = NormalizeInstitution(form_institution)
    /\ parser' = IF Route(institution') = "unknown" THEN "discover"
                 ELSE Route(institution')
    /\ pc' = "read_header"
    /\ UNCHANGED <<form_institution, fieldnames, headers, file_rows, rows_read,
                   transactions, errors, raised, result, db, save_calls, response>>
    /\ UNCHANGED <<resolveVars, headerVars, analyticsVars, tripVars, storeVars, filterVars>>

\* parse_csv: rebind institution to its normalized form, then dispatch to a
\* loader or raise the unknown-institution error
ParseCsv ==
    /\ pc = "parse_csv"
    /\ institution' = NormalizeInstitution(form_institution)
    /\ IF Route(institution') = "unknown"
       THEN /\ raised' = [NoError EXCEPT !.kind = "UnknownInstitution"]
            /\ pc' = "raised"
            /\ UNCHANGED parser
       ELSE /\ parser' = Route(institution')
            /\ pc' = "read_header"
            /\ UNCHANGED raised
    /\ UNCHANGED <<form_institution, fieldnames, headers, file_rows, rows_read,
                   transactions, errors, result, db, save_calls, response>>
    /\ UNCHANGED <<resolveVars, headerVars, analyticsVars, tripVars, storeVars, filterVars>>

\* the loader opens the file and calls _parse_headers
ReadHeader ==
    /\ pc = "read_header"
    /\ \E names \in FieldnameSamples(parser) :
          LET parsed == ParseHeaders(names, ExpectedHeaders(parser))
          IN  /\ fieldnames' = names
              /\ file_rows' \in FileRowSamples(parser, names)
              /\ IF parsed.kind = "ok"
                 THEN /\ headers' = parsed.map
                      /\ pc' = "rows"
                      /\ UNCHANGED raised
                 ELSE /\ raised' = [NoError EXCEPT !.kind = parsed.kind,
                                                   !.missing = parsed.missing,
                                                   !.found = parsed.found]
                      /\ pc' = "raised"
                      /\ UNCHANGED headers
    /\ UNCHANGED <<form_institution, institution, parser, rows_read, transactions, errors,
                   result, db, save_calls, response>>
    /\ UNCHANGED <<resolveVars, headerVars, analyticsVars, tripVars, storeVars, filterVars>>

\* an aggregate ValueError that joins every entry of errors
BatchErrorUncapped(errs) ==
    [NoError EXCEPT !.kind = "BatchValidationFailed",
                    !.count = Len(errs),
                    !.shown = errs]

\* the aggregate ValueError of a loader: the count and the first ErrorCap
\* entries of errors
BatchError(errs) ==
    [NoError EXCEPT !.kind = "BatchValidationFailed",
                    !.count = Len(errs),
                    !.shown = SubSeq(errs, 1, IF Len(errs) < ErrorCap
                                              THEN Len(errs) ELSE ErrorCap)]

\* a row loop that lets the first failing row end the pass
NextRowFailFast ==
    /\ pc = "rows"
    /\ rows_read < Len(file_rows)
    /\ LET row_num == rows_read + EnumerateStart
           decoded == DecodeRow(parser, fieldnames, headers, file_rows[rows_read + 1])
       IN  /\ rows_read' = rows_read + 1
           /\ IF decoded.ok
              THEN /\ transactions' = Append(transactions, decoded.txn)
                   /\ UNCHANGED <<errors, raised, pc>>
              ELSE /\ errors' = Append(errors, [row |-> row_num, msg |-> decoded.msg])
                   /\ raised' = BatchError(errors')
                   /\ pc' = "raised"
                   /\ UNCHANGED transactions
    /\ UNCHANGED <<form_institution, institution, parser, fieldnames, headers, file_rows,
                   result, db, save_calls, response>>
    /\ UNCHANGED <<resolveVars, headerVars, analyticsVars, tripVars, storeVars, filterVars>>

\* one iteration of the loader's for loop: the reader yields the next row,
\* the try block decodes it, the except clause records its failure
NextRow ==
    /\ pc = "rows"
    /\ rows_read < Len(file_rows)
    /\ LET row_num == rows_read + EnumerateStart
           decoded == DecodeRow(parser, fieldnames, headers, file_rows[rows_read + 1])
       IN  /\ rows_read' = rows_read + 1
           /\ IF decoded.ok
              THEN /\ transactions' = Append(transactions, decoded.txn)
                   /\ UNCHANGED errors
              ELSE /\ errors' = Append(errors, [row |-> row_num, msg |-> decoded.msg])
                   /\ UNCHANGED transactions
    /\ UNCHANGED <<pc, form_institution, institution, parser, fieldnames, headers, file_rows, raised,
                   result, db, save_calls, response>>
    /\ UNCHANGED <<resolveVars, headerVars, analyticsVars, tripVars, storeVars, filterVars>>

\* a loader that returns the rows it could decode whatever the error list
EndOfRowsPartial ==
    /\ pc = "rows"
    /\ rows_read = Len(file_rows)
    /\ result' = transactions
    /\ pc' = "returned"
    /\ UNCHANGED <<form_institution, institution, parser, fieldnames, headers, file_rows,
                   rows_read, transactions, errors, raised, db, save_calls, response>>
    /\ UNCHANGED <<resolveVars, headerVars, analyticsVars, tripVars, storeVars, filterVars>>

\* the reader is exhausted: the loader raises if errors, else returns
EndOfRows ==
    /\ pc = "rows"
    /\ rows_read = Len(file_rows)
    /\ IF errors # <<>>
       THEN /\ raised' = BatchError(errors)
            /\ pc' = "raised"
            /\ UNCHANGED result
       ELSE /\ result' = transactions
            /\ pc' = "returned"
            /\ UNCHANGED raised
    /\ UNCHANGED <<form_institution, institution, parser, fieldnames, headers, file_rows, rows_read, transactions, errors, db, save_calls, response>>
    /\ UNCHANGED <<resolveVars, headerVars, analyticsVars, tripVars, storeVars, filterVars>>

\* app.loaders.save_transactions: commits every record of the batch, or
\* fails and leaves the store as it was
SaveBatch(store, batch, committed) ==
    IF committed THEN store \o batch ELSE store

\* upload_csv after parse_csv returned: save_transactions, then 200, or 500
\* when the save raised
SaveTransactions ==
    /\ pc = "returned"
    /\ save_calls' = save_calls + 1
    /\ \E committed \in BOOLEAN :
          /\ db' = SaveBatch(db, result, committed)
          /\ response' = IF committed
                         THEN [status |-> 200, count |-> Len(result), detail |-> NoError]
                         ELSE [status |-> 500, count |-> 0, detail |-> NoError]
    /\ pc' = "done"
    /\ UNCHANGED <<form_institution, institution, parser, fieldnames, headers, file_rows, rows_read, transactions, errors, raised, result>>
    /\ UNCHANGED <<resolveVars, headerVars, analyticsVars, tripVars, storeVars, filterVars>>

\* upload_csv's except ValueError: 400 with the parser's message
RespondValueError ==
    /\ pc = "raised"
    /\ response' = [status |-> 400, count |-> 0, detail |-> raised]
    /\ pc' = "done"
    /\ UNCHANGED <<form_institution, institution, parser, fieldnames, headers, file_rows, rows_read, transactions, errors, raised, result, db, save_calls>>
    /\ UNCHANGED <<resolveVars, headerVars, analyticsVars, tripVars, storeVars, filterVars>>

---------------------------------------------------------------------------
(* The category resolver applied to a name list: the schema validator, the *)
(* persistence helper on the raw list, and the helper on the validated     *)
(* list as create_transaction calls it.                                    *)

NameSamples ==
    { <<"F", "o", "o", "d">>, <<" ", "F", "o", "o", "d", " ">>,
      <<"T", "r", "a", "v", "e", "l">>, <<"f", "o", "o", "d">>,
      Uncategorized, <<" ">>, <<>> }

TableSamples ==
    { <<>>,
      <<[id |-> 1, name |-> Uncategorized]>>,
      <<[id |-> 2, name |-> <<"T", "r", "a", "v", "e", "l">>],
        [id |-> 5, name |-> <<"F", "o", "o", "d">>]>> }

NotResolved == <<None, None>>

ResolveInit ==
    /\ names_in \in ListsUpTo(NameSamples, MaxNames) \cup {NullList}
    /\ cat_table \in TableSamples
    /\ names_schema = NotResolved
    /\ names_db = NotResolved
    /\ names_again = NotResolved

ResolveIdle ==
    /\ names_in = <<>>
    /\ cat_table = <<>>
    /\ names_schema = NotResolved
    /\ names_db = NotResolved
    /\ names_again = NotResolved

\* request validation: TransactionCreate.default_spend_categories
ValidateNames ==
    /\ names_schema = NotResolved
    /\ names_schema' = default_spend_categories(names_in)
    /\ UNCHANGED <<names_in, cat_table, names_db, names_again>>
    /\ UNCHANGED <<pipeVars, headerVars, analyticsVars, tripVars, storeVars, filterVars>>

\* _resolve_spend_categories on the list as given
ResolveGiven ==
    /\ names_schema # NotResolved
    /\ names_db = NotResolved
    /\ LET resolved == ResolveSpendCategories(cat_table, names_in)
       IN  /\ names_db' = NamesOf(resolved.categories)
           /\ cat_table' = resolved.table
    /\ UNCHANGED <<names_in, names_schema, names_again>>
    /\ UNCHANGED <<pipeVars, headerVars, analyticsVars, tripVars, storeVars, filterVars>>

\* create_transaction: _resolve_spend_categories on the validated list
ResolveValidated ==
    /\ names_db # NotResolved
    /\ names_again = NotResolved
    /\ LET resolved == ResolveSpendCategories(cat_table, names_schema)
       IN  /\ names_again' = NamesOf(resolved.categories)
           /\ cat_table' = resolved.table
    /\ UNCHANGED <<names_in, names_schema, names_db>>
    /\ UNCHANGED <<pipeVars, headerVars, analyticsVars, tripVars, storeVars, filterVars>>

---------------------------------------------------------------------------
(* The header resolver applied to a header row.                            *)

HeaderSamples ==
    { TransDate,
      <<" ", "T", "r", "a", "n", "s", ".", " ", " ", "D", "a", "t", "e", BOM>>,
      <<"t", "r", "a", "n", "s", ".", " ", "d", "a", "t", "e">>,
      <<"T", "r", "a", "n", "s", ".", "D", "a", "t", "e">>,
      <<"T", "r", "a", "n", "s", " ", "D", "a", "t", "e">>,
      Date,
      <<BOM, "D", "\t", "a", "t", "e", " ">>,
      <<"D", "A", "T", "E">>,
      Description,
      <<"D", "e", "s", "c", "r", "i", "p", "t", "i", "o", "n", "s">>,
      <<BOMswapped, " ">>,
      <<" ">>,
      <<>> }

ExpectedSamples ==
    { DiscoverHeaders, SchwabHeaders, CashCanvasHeaders,
      SubSeq(DiscoverHeaders, 1, 2), SubSeq(SchwabHeaders, 1, 1) }

HeaderPending == [kind |-> "pending", missing |-> <<>>, found |-> <<>>, map |-> <<>>]

HeaderInit ==
    /\ hdr_expected \in ExpectedSamples
    /\ hdr_actual \in ListsUpTo(HeaderSamples, MaxHdrs)
    /\ hdr_outcome = HeaderPending

HeaderIdle ==
    /\ hdr_expected = <<>>
    /\ hdr_actual = <<>>
    /\ hdr_outcome = HeaderPending

\* _parse_headers on the header row
ResolveHeaders ==
    /\ hdr_outcome.kind = "pending"
    /\ hdr_outcome' = ParseHeaders(hdr_actual, hdr_expected)
    /\ UNCHANGED <<hdr_expected, hdr_actual>>
    /\ UNCHANGED <<pipeVars, resolveVars, analyticsVars, tripVars, storeVars, filterVars>>

---------------------------------------------------------------------------
(* Float arithmetic of compute_analytics (crud/operations.py).             *)

Abs(x) == IF x < 0 THEN 0 - x ELSE x

\* number of bits of a natural number
RECURSIVE BitLength(_)
BitLength(n) == IF n = 0 THEN 0 ELSE 1 + BitLength(n \div 2)

\* a number is a float when MantissaBits bits hold its significant digits
IsFloat(x) ==
    \/ BitLength(Abs(x)) <= MantissaBits
    \/ Abs(x) % (2 ^ (BitLength(Abs(x)) - MantissaBits)) = 0

\* the float nearest to an exact value, ties to the even mantissa
FloatRound(x) ==
    LET mag  == Abs(x)
        bits == BitLength(mag)
    IN  IF bits <= MantissaBits THEN x
        ELSE LET quantum  == 2 ^ (bits - MantissaBits)
                 mantissa == mag \div quantum
                 rest     == mag - mantissa * quantum
                 up       == \/ 2 * rest > quantum
                             \/ 2 * rest = quantum /\ mantissa % 2 = 1
                 rounded  == IF up THEN (mantissa + 1) * quantum
                             ELSE mantissa * quantum
             IN  IF x < 0 THEN 0 - rounded ELSE rounded

\* a + b, and x += b, on floats
FloatAdd(a, b) == FloatRound(a + b)

\* sum(values), and a 0.0 accumulator that each value is added to in list
\* order: the additions are made left to right, each one rounded
RECURSIVE FloatSum(_)
FloatSum(values) ==
    IF values = <<>> THEN 0
    ELSE FloatAdd(FloatSum(SubSeq(values, 1, Len(values) - 1)), values[Len(values)])

\* the quotient of a float by a count, kept as the pair it is computed
\* from; ok is FALSE where Python raises ZeroDivisionError
Divide(num, den) == [ok |-> den # 0, num |-> num, den |-> den]

\* the literal 0.0 of an average
ZeroAverage == [ok |-> TRUE, num |-> 0, den |-> 1]

\* an average taken whether or not the list is empty
AverageUnguarded(values) == Divide(FloatSum(values), Len(values))

\* sum(values) / len(values) if values else 0.0
Average(values) ==
    IF values # <<>> THEN Divide(FloatSum(values), Len(values)) ELSE ZeroAverage

---------------------------------------------------------------------------
(* Analytics Aggregator (crud/operations.py): compute_analytics.  A        *)
(* transaction is [id, date, description, amount, cost_center_id,          *)
(* cost_center, spend_categories], cost_center being the name of the       *)
(* related row and spend_categories the list of related [id, name] rows.   *)

\* sorted(items, key=...): ascending and stable, Less being the order of
\* the keys
StableSort(items, Less(_, _)) ==
    LET n == Len(items)
        rank(i) == 1 + Cardinality({j \in 1..n :
                        \/ Less(items[j], items[i])
                        \/ ~Less(items[i], items[j]) /\ j < i})
    IN  [k \in 1..n |-> items[CHOOSE i \in 1..n : rank(i) = k]]

\* the keys of a dict in insertion order: each key where it first occurs
RECURSIVE InsertionOrder(_)
InsertionOrder(keys) ==
    IF keys = <<>> THEN <<>>
    ELSE LET front == InsertionOrder(SubSeq(keys, 1, Len(keys) - 1))
             last  == keys[Len(keys)]
         IN  IF \E i \in 1..Len(front) : front[i] = last
             THEN front ELSE Append(front, last)

\* the order of datetime.date values
DateLess(a, b) ==
    \/ a.y < b.y
    \/ a.y = b.y /\ a.m < b.m
    \/ a.y = b.y /\ a.m = b.m /\ a.d < b.d

\* the timeline sorted by date alone
TimelineLessByDate(t, u) == DateLess(t.date, u.date)

\* the order of the sort key (t.date, t.id)
TimelineLess(t, u) ==
    \/ DateLess(t.date, u.date)
    \/ t.date = u.date /\ t.id < u.id

\* t.date.strftime("%Y-%m"): the zero-padded year and month, whose text
\* order is the order of (year, month)
MonthKey(date) == <<date.y, date.m>>

MonthLess(a, b) == a[1] < b[1] \/ (a[1] = b[1] /\ a[2] < b[2])

\* [f(x) for x in items]
MapSeq(items, f(_)) == [i \in 1..Len(items) |-> f(items[i])]

AmountOf(t) == t.amount

\* the three accumulators and the counter every bucket keeps: total,
\* expenses (amount < 0), income (every other amount), count
Accumulate(members) ==
    LET amounts == MapSeq(members, AmountOf)
    IN  [total    |-> FloatSum(amounts),
         expenses |-> FloatSum(SelectSeq(amounts, LAMBDA a : a < 0)),
         income   |-> FloatSum(SelectSeq(amounts, LAMBDA a : ~(a < 0))),
         count    |-> Len(amounts)]

\* monthly_data[month]["by_cost_center"]: cost-center name -> the sum of
\* the month's expenses under that name
ByCostCenter(members) ==
    LET spent == SelectSeq(members, LAMBDA t : t.amount < 0)
    IN  {[name   |-> spent[i].cost_center,
          amount |-> FloatSum(MapSeq(SelectSeq(spent,
                        LAMBDA t : t.cost_center = spent[i].cost_center), AmountOf))] :
            i \in 1..Len(spent)}

\* monthly_spending: one entry per month of the input, ascending by month
MonthlySpending(txns) ==
    LET months == StableSort(InsertionOrder(MapSeq(txns, LAMBDA t : MonthKey(t.date))),
                             MonthLess)
        entry(month) ==
            LET members == SelectSeq(txns, LAMBDA t : MonthKey(t.date) = month)
                sums    == Accumulate(members)
            IN  [month |-> month, total |-> sums.total,
                 expense_total |-> sums.expenses, income_total |-> sums.income,
                 transaction_count |-> sums.count,
                 by_cost_center |-> ByCostCenter(members)]
    IN  MapSeq(months, entry)

\* the per-entity lists ordered with the largest expense_total first
ExpensesGreater(a, b) == a.expense_total > b.expense_total

\* key=lambda x: x["expenses"], ascending
ExpensesLess(a, b) == a.expense_total < b.expense_total

\* cost_center_data.values(): one bucket per cost_center_id in the order
\* the ids first occur, named after the first transaction that has the id
CostCenterData(txns) ==
    LET ids == InsertionOrder(MapSeq(txns, LAMBDA t : t.cost_center_id))
        bucket(id) ==
            LET members == SelectSeq(txns, LAMBDA t : t.cost_center_id = id)
                sums    == Accumulate(members)
            IN  [id |-> id, name |-> members[1].cost_center,
                 total |-> sums.total, expense_total |-> sums.expenses,
                 income_total |-> sums.income, transaction_count |-> sums.count]
    IN  MapSeq(ids, bucket)

\* the pairs of a loop that stops at the first category of a transaction
RECURSIVE CategoryPairsFirstOnly(_)
CategoryPairsFirstOnly(txns) ==
    IF txns = <<>> THEN <<>>
    ELSE LET t == txns[Len(txns)]
         IN  CategoryPairsFirstOnly(SubSeq(txns, 1, Len(txns) - 1))
                \o (IF t.spend_categories = <<>> THEN <<>>
                    ELSE <<[amount |-> t.amount, cat |-> t.spend_categories[1]]>>)

\* the (transaction, category) pairs in the order the nested loop visits
RECURSIVE CategoryPairs(_)
CategoryPairs(txns) ==
    IF txns = <<>> THEN <<>>
    ELSE LET t == txns[Len(txns)]
         IN  CategoryPairs(SubSeq(txns, 1, Len(txns) - 1))
                \o [i \in 1..Len(t.spend_categories) |->
                       [amount |-> t.amount, cat |-> t.spend_categories[i]]]

\* spend_category_data.values(): one bucket per category id in the order
\* the ids first occur in the nested loop
SpendCategoryData(txns) ==
    LET pairs == CategoryPairs(txns)
        ids   == InsertionOrder(MapSeq(pairs, LAMBDA p : p.cat.id))
        bucket(id) ==
            LET members == SelectSeq(pairs, LAMBDA p : p.cat.id = id)
                sums    == Accumulate(members)
            IN  [id |-> id, name |-> members[1].cat.name,
                 total |-> sums.total, expense_total |-> sums.expenses,
                 income_total |-> sums.income, transaction_count |-> sums.count]
    IN  MapSeq(ids, bucket)

\* balance_timeline: the transactions sorted by (date, id), each with the
\* balance after it
BalanceTimeline(txns) ==
    LET sorted_txns == StableSort(txns, TimelineLess)
    IN  [k \in 1..Len(sorted_txns) |->
            [date |-> sorted_txns[k].date,
             balance |-> FloatSum(MapSeq(SubSeq(sorted_txns, 1, k), AmountOf)),
             description |-> sorted_txns[k].description,
             amount |-> sorted_txns[k].amount,
             cost_center_name |-> sorted_txns[k].cost_center]]

\* the result of the early return for an empty list
EmptyAnalytics ==
    [raised |-> "none",
     total_spent |-> 0, total_income |-> 0, total_cash |-> 0,
     total_transactions |-> 0, total_cost_centers |-> 0,
     total_spend_categories |-> 0,
     avg_expense |-> ZeroAverage, avg_income |-> ZeroAverage,
     monthly_spending |-> <<>>, cost_center_spending |-> <<>>,
     spend_category_stats |-> <<>>, balance_timeline |-> <<>>]

\* compute_analytics(txns); raised names the exception it ended in.
\* The entries of the two per-entity lists carry their id and name as id and
\* name.
compute_analytics(txns) ==
    IF txns = <<>> THEN EmptyAnalytics
    ELSE LET amounts  == MapSeq(txns, AmountOf)
             expenses == SelectSeq(amounts, LAMBDA a : a < 0)
             incomes  == SelectSeq(amounts, LAMBDA a : a > 0)
             balance_timeline == BalanceTimeline(txns)
             avg_expense == Average(expenses)
             avg_income  == Average(incomes)
         IN  [raised |-> IF avg_expense.ok /\ avg_income.ok THEN "none"
                         ELSE "ZeroDivisionError",
              total_spent |-> 0 - FloatSum(expenses),
              total_income |-> FloatSum(incomes),
              total_cash |-> IF balance_timeline # <<>>
                             THEN balance_timeline[Len(balance_timeline)].balance
                             ELSE 0,
              total_transactions |-> Len(txns),
              total_cost_centers |->
                  Cardinality({txns[i].cost_center_id :
                                  i \in 1..Len(txns)}),
              total_spend_categories |->
                  Cardinality({p.cat.id : p \in Range(CategoryPairs(txns))}),
              avg_expense |-> avg_expense,
              avg_income |-> avg_income,
              monthly_spending |-> MonthlySpending(txns),
              cost_center_spending |->
                  StableSort(CostCenterData(txns), ExpensesLess),
              spend_category_stats |->
                  StableSort(SpendCategoryData(txns), ExpensesLess),
              balance_timeline |-> balance_timeline]

---------------------------------------------------------------------------
(* compute_analytics applied to a transaction list, and to the same        *)
(* transactions in a second order.                                         *)

\* the least float that adding 1.0 to leaves unchanged
Big == 2 ^ MantissaBits

Income    == <<"I", "n", "c", "o", "m", "e">>
Food      == <<"F", "o", "o", "d">>
Housing   == <<"H", "o", "u", "s", "i", "n", "g">>
Groceries == [id |-> 1, name |-> <<"G", "r", "o", "c", "e", "r", "i", "e", "s">>]
Fun       == [id |-> 2, name |-> <<"F", "u", "n">>]

\* stored transactions: ids are primary keys, so no two share one
StoredTransactions ==
    { [id |-> 1, date |-> [y |-> 2024, m |-> 1, d |-> 15],
       description |-> <<"S", "a", "l", "a", "r", "y">>, amount |-> Big,
       cost_center_id |-> 3, cost_center |-> Income, spend_categories |-> <<>>],
      [id |-> 2, date |-> [y |-> 2024, m |-> 1, d |-> 15],
       description |-> <<"R", "e", "f", "u", "n", "d">>, amount |-> 1,
       cost_center_id |-> 1, cost_center |-> Food,
       spend_categories |-> <<Groceries>>],
      [id |-> 3, date |-> [y |-> 2024, m |-> 1, d |-> 10],
       description |-> <<"C", "o", "f", "f", "e", "e">>, amount |-> 0 - 1,
       cost_center_id |-> 1, cost_center |-> Food,
       spend_categories |-> <<Groceries, Fun>>],
      [id |-> 4, date |-> [y |-> 2024, m |-> 2, d |-> 1],
       description |-> <<"R", "e", "n", "t">>, amount |-> 0 - 1,
       cost_center_id |-> 2, cost_center |-> Housing,
       spend_categories |-> <<Fun>>],
      [id |-> 5, date |-> [y |-> 2024, m |-> 2, d |-> 1],
       description |-> <<"C", "a", "s", "h", "b", "a", "c", "k">>, amount |-> 1,
       cost_center_id |-> 1, cost_center |-> Food, spend_categories |-> <<>>],
      [id |-> 6, date |-> [y |-> 2023, m |-> 12, d |-> 31],
       description |-> <<"T", "r", "a", "n", "s", "f", "e", "r">>, amount |-> 0,
       cost_center_id |-> 2, cost_center |-> Housing,
       spend_categories |-> <<Fun>>],
      [id |-> 7, date |-> [y |-> 2024, m |-> 1, d |-> 20],
       description |-> <<"C", "a", "r">>, amount |-> 0 - Big,
       cost_center_id |-> 2, cost_center |-> Housing,
       spend_categories |-> <<Groceries>>] }

\* lists of distinct elements of S, of length n at most
DistinctListsUpTo(S, n) ==
    UNION {{list \in [1..k -> S] :
               \A i \in 1..k, j \in 1..k : list[i] = list[j] => i = j} : k \in 0..n}

\* the orderings of a list
Orderings(list) ==
    {[i \in 1..Len(list) |-> list[p[i]]] :
        p \in {q \in [1..Len(list) -> 1..Len(list)] :
                  \A i \in 1..Len(list), j \in 1..Len(list) : q[i] = q[j] => i = j}}

NoAnalytics == [raised |-> "pending"]

AnalyticsInit ==
    /\ an_txns \in DistinctListsUpTo(StoredTransactions, MaxTxns)
    /\ an_result = NoAnalytics
    /\ an_order = <<>>
    /\ an_reordered = NoAnalytics

AnalyticsIdle ==
    /\ an_txns = <<>>
    /\ an_result = NoAnalytics
    /\ an_order = <<>>
    /\ an_reordered = NoAnalytics

\* the analytics endpoint hands the queried list to compute_analytics
ComputeAnalytics ==
    /\ an_result = NoAnalytics
    /\ an_result' = compute_analytics(an_txns)
    /\ UNCHANGED <<an_txns, an_order, an_reordered>>
    /\ UNCHANGED <<pipeVars, resolveVars, headerVars, tripVars, storeVars, filterVars>>

\* the same transactions queried in another order
ComputeReordered ==
    /\ an_result # NoAnalytics
    /\ an_reordered = NoAnalytics
    /\ \E order \in Orderings(an_txns) :
          /\ an_order' = order
          /\ an_reordered' = compute_analytics(order)
    /\ UNCHANGED <<an_txns, an_result>>
    /\ UNCHANGED <<pipeVars, resolveVars, headerVars, tripVars, storeVars, filterVars>>

---------------------------------------------------------------------------
(* The CashCanvas file of a stored transaction and its way back in         *)
(* (parsers.py, load_cashcanvas_csv; schemas.py, TransactionCreate).       *)

\* str(n) for a natural number
RECURSIVE TextOfNat(_)
TextOfNat(n) ==
    IF n < 10 THEN <<Digits[n + 1]>>
    ELSE Append(TextOfNat(n \div 10), Digits[(n % 10) + 1])

\* text right-aligned in a field of zeros
ZeroPad(text, width) ==
    IF Len(text) >= width THEN text ELSE Repeat("0", width - Len(text)) \o text

\* date.isoformat(): YYYY-MM-DD
IsoFormat(date) ==
    ZeroPad(TextOfNat(date.y), 4) \o <<"-">> \o ZeroPad(TextOfNat(date.m), 2)
        \o <<"-">> \o ZeroPad(TextOfNat(date.d), 2)

\* the ledger amount in decimal notation, the expense sign in front
AmountText(amount) ==
    (IF amount < 0 THEN <<"-">> ELSE <<>>)
        \o TextOfNat(Abs(amount) \div Pow10(FracDigits)) \o <<".">>
        \o ZeroPad(TextOfNat(Abs(amount) % Pow10(FracDigits)), FracDigits)

\* sep.join(parts)
RECURSIVE JoinWith(_, _)
JoinWith(parts, sep) ==
    IF parts = <<>> THEN <<>>
    ELSE IF Len(parts) = 1 THEN parts[1]
    ELSE parts[1] \o sep \o JoinWith(Tail(parts), sep)

\* the row of a stored transaction in the CashCanvas file, its cells in the
\* order of the expected columns
ExportRow(txn) ==
    << IsoFormat(txn.date),
       txn.description,
       AmountText(txn.amount),
       txn.account,
       txn.cost_center_name,
       JoinWith(txn.spend_category_names, <<",">>),
       IF txn.notes = None THEN <<>> ELSE txn.notes >>

\* load_cashcanvas_csv on one row under the exact header row, then
\* TransactionCreate(**txn_data) on the record it returned
ReparseRow(cells) ==
    LET map == ParseHeaders(CashCanvasFieldnames, CashCanvasHeaders).map
        row == CashCanvasRow(CashCanvasFieldnames, map, cells)
    IN  [ok |-> row.ok /\ TransactionCreate(row.txn).ok,
         model |-> TransactionCreate(row.txn).model]

Travel == <<"T", "r", "a", "v", "e", "l">>
UNCATEGORIZED ==
    <<"U", "N", "C", "A", "T", "E", "G", "O", "R", "I", "Z", "E", "D">>

\* names a stored cost center or spend category can carry: the validators
\* strip a name and keep its letter case
StoredNames == {Food, Travel, Uncategorized, Lower(Uncategorized), UNCATEGORIZED}

\* stored transactions: validated TransactionCreate models
CanonicalTransactions ==
    [date : {[y |-> 2024, m |-> 1, d |-> 5], [y |-> 987, m |-> 12, d |-> 31]},
     description : {<<"C", "o", "f", "f", "e", "e">>, <<"A", " ", "b">>},
     amount : {0 - (12 * Pow10(FracDigits) + 5), 7, 0, 3 * Pow10(FracDigits)},
     account : {<<"C", "h", "k">>},
     cost_center_name : StoredNames \ {Travel},
     spend_category_names : DistinctListsUpTo(StoredNames, 2) \ {<<>>},
     notes : {None, <<"m", "e", "m", "o">>}]

NotReparsed == [ok |-> FALSE, model |-> NoTxn]

TripInit ==
    /\ rt_txn \in CanonicalTransactions
    /\ rt_row = <<>>
    /\ rt_back = NotReparsed

TripIdle ==
    /\ rt_txn = NoTxn
    /\ rt_row = <<>>
    /\ rt_back = NotReparsed

\* the export of the stored transaction
ExportCashCanvas ==
    /\ rt_row = <<>>
    /\ rt_row' = ExportRow(rt_txn)
    /\ UNCHANGED <<rt_txn, rt_back>>
    /\ UNCHANGED <<pipeVars, resolveVars, headerVars, analyticsVars, storeVars, filterVars>>

\* the upload of the exported file
ReparseCashCanvas ==
    /\ rt_row # <<>>
    /\ rt_back = NotReparsed
    /\ rt_back' = ReparseRow(rt_row)
    /\ UNCHANGED <<rt_txn, rt_row>>
    /\ UNCHANGED <<pipeVars, resolveVars, headerVars, analyticsVars, storeVars, filterVars>>

---------------------------------------------------------------------------
(* The store behind the CRUD calls (crud/operations.py).  A transaction    *)
(* row is [id, cost_center_id, spend_category_ids]: its foreign key and    *)
(* its rows of the association table, in list order.  The tables are lists *)
(* of [id, name] rows; a call runs to its end before the next one starts.  *)

\* most transactions in the store, and the largest id a table gives out
MaxStored == 2
MaxId == 3

\* TransactionUpdate.update_cost_center
update_cost_center(v) ==
    IF v = None THEN None
    ELSE IF Strip(v) = <<>> THEN Uncategorized ELSE Strip(v)

\* TransactionUpdate.update_spend_categories
update_spend_categories(v) ==
    IF v = NullList THEN NullList
    ELSE LET stripped == [i \in 1..Len(v) |-> Strip(v[i])]
             cleaned  == SelectSeq(stripped, LAMBDA name : name # <<>>)
         IN  IF cleaned = <<>> THEN <<Uncategorized>> ELSE cleaned

\* a cost-center lookup that adds a row whatever the table holds
CreateCostCenter(table, given) ==
    LET name == IF given = None \/ given = <<>> \/ Strip(given) = <<>>
                THEN Uncategorized ELSE given
    IN  [table |-> Append(table, [id |-> NextId(table), name |-> name]),
         row   |-> [id |-> NextId(table), name |-> name]]

\* _get_or_create_cost_center: [table, row]
GetOrCreateCostCenter(table, given) ==
    LET name == IF given = None \/ given = <<>> \/ Strip(given) = <<>>
                THEN Uncategorized ELSE given
        hits == {i \in 1..Len(table) : table[i].name = name}
    IN  IF hits # {}
        THEN [table |-> table,
              row   |-> table[CHOOSE i \in hits : \A j \in hits : i <= j]]
        ELSE [table |-> Append(table, [id |-> NextId(table), name |-> name]),
              row   |-> [id |-> NextId(table), name |-> name]]

IdsOf(rows) == [i \in 1..Len(rows) |-> rows[i].id]

\* cost_center.transactions / category.transactions is empty
Unreferenced(txns, field, id) ==
    \A i \in 1..Len(txns) :
        IF field = "cost_center" THEN txns[i].cost_center_id # id
        ELSE \A k \in 1..Len(txns[i].spend_category_ids) :
                txns[i].spend_category_ids[k] # id

\* a cleanup that leaves the cost center in place
KeepCostCenter(centers, txns, cost_center_id) == centers

\* _cleanup_orphaned_cost_center: the table after the call
CleanupOrphanedCostCenter(centers, txns, cost_center_id) ==
    IF Unreferenced(txns, "cost_center", cost_center_id)
    THEN SelectSeq(centers, LAMBDA row : row.id # cost_center_id)
    ELSE centers

\* _cleanup_orphaned_spend_categories: the table after the call
CleanupOrphanedSpendCategories(cats, txns, old_ids) ==
    SelectSeq(cats, LAMBDA row :
        ~(/\ \E k \in 1..Len(old_ids) : old_ids[k] = row.id
          /\ Unreferenced(txns, "spend_category", row.id)))

\* free-text cost-center names and name lists a request body can carry
CenterInputs == {None, <<" ">>, <<" ", "F", "o", "o", "d">>}

CategoryInputs ==
    {NullList, <<<<" ">>>>, <<Food, <<"F", "o", "o", "d", " ">>>>, <<Travel, Food>>}

\* a field a TransactionUpdate body leaves out
Unset == [set |-> FALSE, v |-> <<>>]

\* a null or blank cost-center name, a null or all-blank name list
BlankCenter(field) == field.set /\ (field.v = None \/ Strip(field.v) = <<>>)

BlankCategories(field) ==
    field.set /\ (field.v = NullList \/ \A i \in 1..Len(field.v) : Strip(field.v[i]) = <<>>)

NoCall == [op |-> "none", blanked |-> FALSE]

StoreInit ==
    /\ txn_table = <<>>
    /\ cc_table = <<>>
    /\ sc_table = <<>>
    /\ last_call = NoCall

StoreIdle == StoreInit

\* create_transaction on a validated TransactionCreate
CreateTransaction ==
    /\ Len(txn_table) < MaxStored
    /\ NextId(txn_table) <= MaxId
    /\ \E center_in \in CenterInputs, cats_in \in CategoryInputs :
          LET cost_center_name == default_cost_center(center_in)
              names       == default_spend_categories(cats_in)
              cost_center == GetOrCreateCostCenter(cc_table, cost_center_name)
              resolved    == ResolveSpendCategories(sc_table, names)
          IN  /\ \A i \in 1..Len(cost_center.table) : cost_center.table[i].id <= MaxId
              /\ \A i \in 1..Len(resolved.table) : resolved.table[i].id <= MaxId
              /\ cc_table' = cost_center.table
              /\ sc_table' = resolved.table
              /\ txn_table' = Append(txn_table,
                                 [id |-> NextId(txn_table),
                                  cost_center_id |-> cost_center.row.id,
                                  spend_category_ids |-> IdsOf(resolved.categories)])
              /\ last_call' = [op |-> "create", blanked |-> FALSE]
    /\ UNCHANGED <<pipeVars, resolveVars, headerVars, analyticsVars, tripVars, filterVars>>

\* update_transaction on a validated TransactionUpdate; the scalar fields
\* of the body touch no table but the transaction's own row
UpdateTransaction ==
    \E tx_id \in 1..MaxId,
       center \in {Unset} \cup {[set |-> TRUE, v |-> c] : c \in CenterInputs},
       cats \in {Unset} \cup {[set |-> TRUE, v |-> l] : l \in CategoryInputs} :
       LET hits == {i \in 1..Len(txn_table) : txn_table[i].id = tx_id}
       IN  /\ last_call' = [op |-> "update",
                            blanked |-> /\ hits # {}
                                        /\ BlankCenter(center)
                                        /\ BlankCategories(cats)]
           /\ IF hits = {}
              THEN UNCHANGED <<txn_table, cc_table, sc_table>>
              ELSE LET at == CHOOSE i \in hits : TRUE
                       existing == txn_table[at]
                       old_cost_center_id == existing.cost_center_id
                       old_spend_categories == existing.spend_category_ids
                       cost_center ==
                           IF center.set
                           THEN GetOrCreateCostCenter(cc_table, update_cost_center(center.v))
                           ELSE [table |-> cc_table,
                                 row |-> [id |-> old_cost_center_id, name |-> <<>>]]
                       resolved ==
                           IF cats.set
                           THEN LET got == ResolveSpendCategories(
                                               sc_table, update_spend_categories(cats.v))
                                IN  [table |-> got.table, ids |-> IdsOf(got.categories)]
                           ELSE [table |-> sc_table, ids |-> old_spend_categories]
                       updated == [txn_table EXCEPT
                                      ![at].cost_center_id = cost_center.row.id,
                                      ![at].spend_category_ids = resolved.ids]
                   IN  /\ \A i \in 1..Len(cost_center.table) :
                             cost_center.table[i].id <= MaxId
                       /\ \A i \in 1..Len(resolved.table) : resolved.table[i].id <= MaxId
                       /\ txn_table' = updated
                       /\ cc_table' =
                             IF old_cost_center_id # cost_center.row.id
                             THEN CleanupOrphanedCostCenter(cost_center.table, updated,
                                                            old_cost_center_id)
                             ELSE cost_center.table
                       /\ sc_table' = CleanupOrphanedSpendCategories(
                                         resolved.table, updated, old_spend_categories)
    /\ UNCHANGED <<pipeVars, resolveVars, headerVars, analyticsVars, tripVars, filterVars>>

\* delete_transaction
DeleteTransaction ==
    \E tx_id \in 1..MaxId :
       LET hits == {i \in 1..Len(txn_table) : txn_table[i].id = tx_id}
       IN  /\ last_call' = [op |-> "delete", blanked |-> FALSE]
           /\ IF hits = {}
              THEN UNCHANGED <<txn_table, cc_table, sc_table>>
              ELSE LET tx == txn_table[CHOOSE i \in hits : TRUE]
                       remaining == SelectSeq(txn_table, LAMBDA row : row.id # tx_id)
                   IN  /\ txn_table' = remaining
                       /\ cc_table' = CleanupOrphanedCostCenter(cc_table, remaining,
                                                                tx.cost_center_id)
                       /\ sc_table' = CleanupOrphanedSpendCategories(
                                         sc_table, remaining, tx.spend_category_ids)
    /\ UNCHANGED <<pipeVars, resolveVars, headerVars, analyticsVars, tripVars, filterVars>>

---------------------------------------------------------------------------
(* The two query builders (crud/operations.py): get_transactions behind    *)
(* the analytics endpoint and build_filter_query behind the paginated      *)
(* filter endpoint.  An optional argument is [set, v], set being FALSE for *)
(* None; a stored transaction is [id, date, description, amount, account,  *)
(* cost_center_id, spend_category_ids].                                    *)

NotGiven(v) == [set |-> FALSE, v |-> v]
Given(v) == [set |-> TRUE, v |-> v]

\* description ILIKE '%search%': search occurs in the text, case aside
ILike(text, search) ==
    \E i \in 1..(Len(text) - Len(search) + 1) :
        Lower(SubSeq(text, i, i + Len(search) - 1)) = Lower(search)

DateLessEq(a, b) == a = b \/ DateLess(a, b)

\* a build_filter_query that tests the amount bounds by truth value
build_filter_query_truthy(table, args) ==
    LET kept(t) ==
          /\ (args.search.set /\ args.search.v # <<>>)
                => ILike(t.description, args.search.v)
          /\ (args.cost_center_ids.set /\ args.cost_center_ids.v # <<>>)
                => t.cost_center_id \in Range(args.cost_center_ids.v)
          /\ (args.spend_category_ids.set /\ args.spend_category_ids.v # <<>>)
                => Range(t.spend_category_ids) \cap Range(args.spend_category_ids.v) # {}
          /\ (args.account.set /\ args.account.v # <<>>)
                => t.account \in Range(args.account.v)
          /\ args.start_date.set => DateLessEq(args.start_date.v, t.date)
          /\ args.end_date.set => DateLessEq(t.date, args.end_date.v)
          /\ (args.min_amount.set /\ args.min_amount.v # 0)
                => t.amount >= args.min_amount.v
          /\ (args.max_amount.set /\ args.max_amount.v # 0)
                => t.amount <= args.max_amount.v
    IN  {t.id : t \in {u \in table : kept(u)}}

\* build_filter_query: the ids of the rows the query selects
build_filter_query(table, args) ==
    LET kept(t) ==
          /\ (args.search.set /\ args.search.v # <<>>)
                => ILike(t.description, args.search.v)
          /\ (args.cost_center_ids.set /\ args.cost_center_ids.v # <<>>)
                => t.cost_center_id \in Range(args.cost_center_ids.v)
          /\ (args.spend_category_ids.set /\ args.spend_category_ids.v # <<>>)
                => Range(t.spend_category_ids) \cap Range(args.spend_category_ids.v) # {}
          /\ (args.account.set /\ args.account.v # <<>>)
                => t.account \in Range(args.account.v)
          /\ args.start_date.set => DateLessEq(args.start_date.v, t.date)
          /\ args.end_date.set => DateLessEq(t.date, args.end_date.v)
          /\ args.min_amount.set => t.amount >= args.min_amount.v
          /\ args.max_amount.set => t.amount <= args.max_amount.v
    IN  {t.id : t \in {u \in table : kept(u)}}

\* get_transactions: the ids of the rows query.all() returns
get_transactions(table, args) ==
    LET search_ok(t) ==
            IF args.search.set /\ args.search.v # <<>>
            THEN ILike(t.description, args.search.v) ELSE TRUE
        cost_center_ok(t) ==
            IF args.cost_center_ids.set /\ args.cost_center_ids.v # <<>>
            THEN \E k \in 1..Len(args.cost_center_ids.v) :
                    args.cost_center_ids.v[k] = t.cost_center_id
            ELSE TRUE
        spend_category_ok(t) ==
            IF args.spend_category_ids.set /\ args.spend_category_ids.v # <<>>
            THEN \E k \in 1..Len(args.spend_category_ids.v),
                    j \in 1..Len(t.spend_category_ids) :
                    args.spend_category_ids.v[k] = t.spend_category_ids[j]
            ELSE TRUE
        account_ok(t) ==
            IF args.account.set /\ args.account.v # <<>>
            THEN \E k \in 1..Len(args.account.v) : args.account.v[k] = t.account
            ELSE TRUE
        start_ok(t) == IF args.start_date.set
                       THEN ~DateLess(t.date, args.start_date.v) ELSE TRUE
        end_ok(t) == IF args.end_date.set
                     THEN ~DateLess(args.end_date.v, t.date) ELSE TRUE
        min_ok(t) == IF args.min_amount.set
                     THEN t.amount >= args.min_amount.v ELSE TRUE
        max_ok(t) == IF args.max_amount.set
                     THEN t.amount <= args.max_amount.v ELSE TRUE
    IN  {t.id : t \in {u \in table :
            /\ search_ok(u) /\ cost_center_ok(u) /\ spend_category_ok(u)
            /\ account_ok(u) /\ start_ok(u) /\ end_ok(u) /\ min_ok(u) /\ max_ok(u)}}

Checking == <<"C", "h", "e", "c", "k", "i", "n", "g">>
Card == <<"C", "a", "r", "d">>
Jan15 == [y |-> 2024, m |-> 1, d |-> 15]
Feb01 == [y |-> 2024, m |-> 2, d |-> 1]

\* the transactions table the queries run on
QueriedTable ==
    { [id |-> 1, date |-> Jan15, description |-> <<"C", "o", "f", "f", "e", "e">>,
       amount |-> 0 - 5, account |-> Card, cost_center_id |-> 1,
       spend_category_ids |-> <<1, 2>>],
      [id |-> 2, date |-> Feb01, description |-> <<"R", "e", "n", "t">>,
       amount |-> 0 - 900, account |-> Checking, cost_center_id |-> 2,
       spend_category_ids |-> <<3>>],
      [id |-> 3, date |-> [y |-> 2024, m |-> 1, d |-> 31],
       description |-> <<"O", "f", "f", "i", "c", "e">>,
       amount |-> 0, account |-> Checking, cost_center_id |-> 3,
       spend_category_ids |-> <<2>>],
      [id |-> 4, date |-> [y |-> 2023, m |-> 12, d |-> 31],
       description |-> <<"S", "a", "l", "a", "r", "y">>,
       amount |-> 2000, account |-> Checking, cost_center_id |-> 3,
       spend_category_ids |-> <<4>>] }

\* the query strings of a request: every argument absent, empty or zero,
\* or a value that some rows meet and others do not
FilterArguments ==
    [search : {NotGiven(<<>>), Given(<<>>), Given(<<"o", "F", "F">>)},
     cost_center_ids : {NotGiven(<<>>), Given(<<>>), Given(<<3>>), Given(<<1, 2>>)},
     spend_category_ids : {NotGiven(<<>>), Given(<<>>), Given(<<2, 4>>)},
     account : {NotGiven(<<>>), Given(<<>>), Given(<<Checking>>)},
     start_date : {NotGiven(Jan15), Given(Jan15)},
     end_date : {NotGiven(Feb01), Given(Feb01), Given(Jan15)},
     min_amount : {NotGiven(0), Given(0), Given(0 - 5)},
     max_amount : {NotGiven(0), Given(0), Given(0 - 5)}]

NoArguments ==
    [search |-> NotGiven(<<>>), cost_center_ids |-> NotGiven(<<>>),
     spend_category_ids |-> NotGiven(<<>>), account |-> NotGiven(<<>>),
     start_date |-> NotGiven(Jan15), end_date |-> NotGiven(Feb01),
     min_amount |-> NotGiven(0), max_amount |-> NotGiven(0)]

NotQueried == [done |-> FALSE, ids |-> {}]

FilterInit ==
    /\ flt_args \in FilterArguments
    /\ flt_listed = NotQueried
    /\ flt_analysed = NotQueried

FilterIdle ==
    /\ flt_args = NoArguments
    /\ flt_listed = NotQueried
    /\ flt_analysed = NotQueried

\* GET /transactions/filter: the rows behind the page
FilterTransactions ==
    /\ ~flt_listed.done
    /\ flt_listed' = [done |-> TRUE, ids |-> build_filter_query(QueriedTable, flt_args)]
    /\ UNCHANGED <<flt_args, flt_analysed>>
    /\ UNCHANGED <<pipeVars, resolveVars, headerVars, analyticsVars, tripVars, storeVars>>

\* GET /transactions/analytics: the rows handed to compute_analytics
GetAnalytics ==
    /\ ~flt_analysed.done
    /\ flt_analysed' = [done |-> TRUE, ids |-> get_transactions(QueriedTable, flt_args)]
    /\ UNCHANGED <<flt_args, flt_listed>>
    /\ UNCHANGED <<pipeVars, resolveVars, headerVars, analyticsVars, tripVars, storeVars>>

---------------------------------------------------------------------------
(* Specifications.                                                         *)

Init == PipeInit /\ ResolveIdle /\ HeaderIdle /\ AnalyticsIdle /\ TripIdle /\ StoreIdle /\ FilterIdle

Next ==
    \/ UploadCsv
    \/ ParseCsv
    \/ ReadHeader
    \/ NextRow
    \/ EndOfRows
    \/ SaveTransactions
    \/ RespondValueError

\* the upload request
Spec == Init /\ [][Next]_vars

\* long files: up to MaxErrRows data rows, every one failing (two kinds of
\* failure in turn) except at most one decodable row at any position
LongFiles(p) ==
    LET names == ExactFieldnames(p)
        map == ParseHeaders(names, ExpectedHeaders(p)).map
        good == CHOOSE r \in NarrowRows(p) : DecodeRow(p, names, map, r).ok
        bad1 == CHOOSE r \in WideRows(p) : ~DecodeRow(p, names, map, r).ok
        bad2 == CHOOSE r \in WideRows(p) :
                    /\ ~DecodeRow(p, names, map, r).ok
                    /\ DecodeRow(p, names, map, r).msg # DecodeRow(p, names, map, bad1).msg
    IN  { [i \in 1..n |-> IF i = v THEN good
                          ELSE IF i % 2 = 1 THEN bad1 ELSE bad2] :
            n \in 0..MaxErrRows, v \in 0..MaxErrRows }

\* a loader at the top of its row loop over a long file
LongInit ==
    /\ pc = "rows"
    /\ parser \in {"discover", "schwab", "cashcanvas"}
    /\ form_institution = CHOOSE tag \in TagSamples :
                              Route(NormalizeInstitution(tag)) = parser
    /\ institution = NormalizeInstitution(form_institution)
    /\ fieldnames = ExactFieldnames(parser)
    /\ headers = ParseHeaders(fieldnames, ExpectedHeaders(parser)).map
    /\ file_rows \in LongFiles(parser)
    /\ rows_read = 0
    /\ transactions = <<>>
    /\ errors = <<>>
    /\ raised = NoError
    /\ result = <<>>
    /\ db = <<>>
    /\ save_calls = 0
    /\ response = NoResponse

InitLong == LongInit /\ ResolveIdle /\ HeaderIdle /\ AnalyticsIdle /\ TripIdle /\ StoreIdle /\ FilterIdle

NextLong ==
    \/ NextRow
    \/ EndOfRows
    \/ SaveTransactions
    \/ RespondValueError

\* each loader on the long files, and the answer of the upload
SpecLong == InitLong /\ [][NextLong]_vars

\* a loader at the top of its row loop, over a well-formed header row
RowInit ==
    /\ pc = "rows"
    /\ parser \in {"discover", "schwab", "cashcanvas"}
    /\ form_institution \in {tag \in TagSamples :
                                Route(NormalizeInstitution(tag)) = parser}
    /\ institution = NormalizeInstitution(form_institution)
    /\ fieldnames = ExactFieldnames(parser)
    /\ headers = ParseHeaders(fieldnames, ExpectedHeaders(parser)).map
    /\ file_rows \in {<<cells>> : cells \in WideRows(parser)}
    /\ rows_read = 0
    /\ transactions = <<>>
    /\ errors = <<>>
    /\ raised = NoError
    /\ result = <<>>
    /\ db = <<>>
    /\ save_calls = 0
    /\ response = NoResponse

InitRow == RowInit /\ ResolveIdle /\ HeaderIdle /\ AnalyticsIdle /\ TripIdle /\ StoreIdle /\ FilterIdle

NextRowSpec ==
    \/ NextRow
    \/ EndOfRows

\* each loader on every one-row file of the wide row universe
SpecRow == InitRow /\ [][NextRowSpec]_vars

InitResolve == PipeInit /\ ResolveInit /\ HeaderIdle /\ AnalyticsIdle /\ TripIdle /\ StoreIdle /\ FilterIdle

NextResolve ==
    \/ ValidateNames
    \/ ResolveGiven
    \/ ResolveValidated

\* the category resolver on every bounded name list
SpecResolve == InitResolve /\ [][NextResolve]_vars

InitHeaders == PipeInit /\ ResolveIdle /\ HeaderInit /\ AnalyticsIdle /\ TripIdle /\ StoreIdle /\ FilterIdle

NextHeaders == ResolveHeaders

\* the header resolver on every bounded header row
SpecHeaders == InitHeaders /\ [][NextHeaders]_vars

InitAnalytics == PipeInit /\ ResolveIdle /\ HeaderIdle /\ AnalyticsInit /\ TripIdle /\ StoreIdle /\ FilterIdle

NextAnalytics ==
    \/ ComputeAnalytics
    \/ ComputeReordered

\* compute_analytics on every bounded list of stored transactions
SpecAnalytics == InitAnalytics /\ [][NextAnalytics]_vars

\* a stored transaction, exported and uploaded again
InitRoundTrip == PipeInit /\ ResolveIdle /\ HeaderIdle /\ AnalyticsIdle /\ TripInit /\ StoreIdle /\ FilterIdle

NextRoundTrip ==
    \/ ExportCashCanvas
    \/ ReparseCashCanvas

SpecRoundTrip == InitRoundTrip /\ [][NextRoundTrip]_vars

\* CRUD calls made one after another on a store that starts empty
InitStore ==
    PipeInit /\ ResolveIdle /\ HeaderIdle /\ AnalyticsIdle /\ TripIdle /\ StoreInit /\ FilterIdle

NextStore ==
    \/ CreateTransaction
    \/ UpdateTransaction
    \/ DeleteTransaction

SpecStore == InitStore /\ [][NextStore]_vars

\* one request to each of the two endpoints with the same query string
InitFilter ==
    PipeInit /\ ResolveIdle /\ HeaderIdle /\ AnalyticsIdle /\ TripIdle /\ StoreIdle /\ FilterInit

NextFilter ==
    \/ FilterTransactions
    \/ GetAnalytics

SpecFilter == InitFilter /\ [][NextFilter]_vars




---------------------------------------------------------------------------
(* Properties of the upload request (Spec) and of the row loop (SpecRow).  *)

\* parse_csv has come back to upload_csv, by return or by exception
ParseCsvDone == pc \in {"raised", "returned", "done"}

\* data row k of the file decodes without an exception
RowIsValid(k) == DecodeRow(parser, fieldnames, headers, file_rows[k]).ok

\* the stripped cell of the one data row of SpecRow under a logical key
RowCell(key) == StripCellOrEmpty(fieldnames, file_rows[1], HeaderOf(headers, key)).v

\* C1: parse_csv is all-or-nothing.  When it has returned, no error was
\* raised or recorded and the result holds one record per data row, in the
\* order of the rows; when it raised, it returned no record,
\* save_transactions was never called and the store is empty; a batch with
\* an error entry never reaches the result or the store; the store only ever
\* holds the whole returned batch.
C1_AllOrNothing ==
    /\ (pc = "returned" \/ save_calls > 0) =>
          /\ raised.kind = "none"
          /\ errors = <<>>
          /\ Len(result) = Len(file_rows)
          /\ \A k \in 1..Len(file_rows) :
                LET decoded == DecodeRow(parser, fieldnames, headers, file_rows[k])
                IN  decoded.ok /\ result[k] = decoded.txn
    /\ raised.kind # "none" => result = <<>> /\ save_calls = 0 /\ db = <<>>
    /\ errors # <<>> => result = <<>> /\ save_calls = 0 /\ db = <<>>
    /\ pc # "returned" /\ save_calls = 0 /\ pc # "done" => result = <<>>
    /\ save_calls <= 1
    /\ db \in {<<>>, result}

\* a batch with two decodable rows and an invalid one was answered 400 and
\* left nothing in the store
C1_Witness ==
    /\ response.status = 400
    /\ raised.kind = "BatchValidationFailed"
    /\ Len(transactions) >= 2
    /\ errors # <<>>
    /\ result = <<>>
    /\ save_calls = 0
    /\ db = <<>>

\* the error rows recorded so far: one entry or record per row read, row
\* numbers from EnumerateStart up, strictly ascending
C2_Ledger ==
    /\ Len(transactions) + Len(errors) = rows_read
    /\ \A i \in 1..Len(errors) : errors[i].row \in 2..(rows_read + 1)
    /\ \A i \in 1..Len(errors), j \in 1..Len(errors) :
          i < j => errors[i].row < errors[j].row

\* one step of the pass: reading data row k adds exactly one error entry
\* with row number k + 1 when the row is invalid and exactly one record and
\* no entry when it is valid; the loop is left only with every row read
C2_Step ==
    /\ (pc = "rows" /\ rows_read' # rows_read) =>
          /\ rows_read' = rows_read + 1
          /\ LET k == rows_read + 1
             IN  IF RowIsValid(k)
                 THEN /\ errors' = errors
                      /\ Len(transactions') = Len(transactions) + 1
                 ELSE /\ transactions' = transactions
                      /\ Len(errors') = Len(errors) + 1
                      /\ errors'[Len(errors')].row = k + 1
    /\ (pc = "rows" /\ pc' # "rows") => rows_read = Len(file_rows)
    /\ (pc = "rows" /\ pc' = "raised") =>
          raised'.kind = "BatchValidationFailed" /\ raised'.count = Len(errors)
    /\ C2_Ledger'

\* C2: in every institution parser a failing row never stops the pass:
\* every data row is decoded, the error list holds exactly one entry per
\* invalid row and none for valid rows, in ascending row order, and the
\* entry for the k-th data row carries row number k + 1.
C2_EveryRowDecoded == [][C2_Step]_vars

\* five data rows, the second and the fifth invalid: two errors, rows 3 and 6
C2_Witness ==
    /\ raised.kind = "BatchValidationFailed"
    /\ Len(file_rows) = 5
    /\ rows_read = 5
    /\ Len(transactions) = 3
    /\ Len(errors) = 2
    /\ errors[1].row = 3
    /\ errors[2].row = 6
    /\ raised.count = 2

\* C3: a Schwab row with both the Withdrawal and the Deposit column
\* non-empty is a row error: an entry in the error list and no record.
C3_BothPopulatedIsError ==
    (/\ parser = "schwab"
     /\ rows_read = 1
     /\ Len(file_rows[1]) = Len(fieldnames)
     /\ RowCell("withdrawal") # <<>>
     /\ RowCell("deposit") # <<>>)
    => (Len(errors) = 1 /\ transactions = <<>>)

\* the date and description of the one data row pass their checks
C4_RestOfRowValid ==
    /\ Len(file_rows[1]) = Len(fieldnames)
    /\ StrptimeMDY(RowCell("date")).ok
    /\ RowCell("description") # <<>>
    /\ Len(RowCell("description")) <= DescriptionMax

\* the text is a number once "$", "," and whitespace are removed
IsNumeric(text) == clean_currency_string(text).ok

\* C4: for a Schwab row with exactly one of Withdrawal/Deposit non-empty and
\* numeric, Withdrawal = w yields ledger amount -w and Deposit = d yields
\* +d (100.00 withdrawn is -100.00, $1,000.50 deposited is 1000.50); a row
\* with both columns empty or whitespace only is a row error.
C4_SchwabSign ==
    (parser = "schwab" /\ rows_read = 1 /\ Len(file_rows[1]) = Len(fieldnames)) =>
       LET w == RowCell("withdrawal")
           d == RowCell("deposit")
       IN  /\ (w = <<>> /\ d = <<>>) => (Len(errors) = 1 /\ transactions = <<>>)
           /\ (w # <<>> /\ d = <<>> /\ IsNumeric(w) /\ C4_RestOfRowValid) =>
                 /\ Len(transactions) = 1 /\ errors = <<>>
                 /\ transactions[1].amount = 0 - clean_currency_string(w).v
                 /\ (w = <<"1", "0", "0", ".", "0", "0">>
                       => transactions[1].amount = 0 - 100 * Pow10(FracDigits))
           /\ (d # <<>> /\ w = <<>> /\ IsNumeric(d) /\ C4_RestOfRowValid) =>
                 /\ Len(transactions) = 1 /\ errors = <<>>
                 /\ transactions[1].amount = clean_currency_string(d).v
                 /\ (d = <<"$", "1", ",", "0", "0", "0", ".", "5", "0">>
                       => transactions[1].amount = 10005 * Pow10(FracDigits - 1))

\* a row with Withdrawal = "100.00" and no deposit gave amount -100.00
C4_Witness ==
    /\ parser = "schwab"
    /\ rows_read = 1
    /\ Len(file_rows[1]) = Len(fieldnames)
    /\ RowCell("withdrawal") = <<"1", "0", "0", ".", "0", "0">>
    /\ RowCell("deposit") = <<>>
    /\ Len(transactions) = 1
    /\ transactions[1].amount = 0 - 100 * Pow10(FracDigits)

\* C5: for every valid Discover row the ledger amount is the negation of the
\* CSV amount: a positive CSV amount becomes negative, a negative one
\* positive; 12.50 gives -12.50 and -20.00 gives 20.00.
C5_DiscoverNegation ==
    (parser = "discover" /\ rows_read = 1 /\ Len(transactions) = 1) =>
       LET csv == clean_currency_string(RowCell("amount"))
           ledger == transactions[1].amount
       IN  /\ csv.ok
           /\ ledger = 0 - csv.v
           /\ csv.v > 0 => ledger < 0
           /\ csv.v < 0 => ledger > 0
           /\ (RowCell("amount") = <<"1", "2", ".", "5", "0">>
                 => ledger = 0 - 125 * Pow10(FracDigits - 1))
           /\ (RowCell("amount") = <<"-", "2", "0", ".", "0", "0">>
                 => ledger = 20 * Pow10(FracDigits))

\* a Discover credit of -20.00 in the CSV is 20.00 in the ledger
C5_Witness ==
    /\ parser = "discover"
    /\ rows_read = 1
    /\ RowCell("amount") = <<"-", "2", "0", ".", "0", "0">>
    /\ Len(transactions) = 1
    /\ transactions[1].amount = 20 * Pow10(FracDigits)

\* the first i names of a list trimmed, blanks dropped, and each name kept
\* only at its first occurrence
RECURSIVE FirstSeen(_, _)
FirstSeen(names, i) ==
    IF i = 0 THEN <<>>
    ELSE LET kept == FirstSeen(names, i - 1)
             name == Strip(names[i])
         IN  IF name = <<>> \/ \E j \in 1..(i - 1) : Strip(names[j]) = name
             THEN kept
             ELSE Append(kept, name)

\* a name list as the resolver is to leave it
CleanNameList(names) ==
    IF names = NullList \/ FirstSeen(names, Len(names)) = <<>>
    THEN <<Uncategorized>>
    ELSE FirstSeen(names, Len(names))

\* C6: for every valid CashCanvas row, the category list of the record the
\* parser returns is the comma-split, trimmed Spend Categories value with
\* empties dropped and duplicates removed, keeping first-seen order
\* ("Food, Food, Travel" yields ["Food", "Travel"]).  The cell that is the
\* word "uncategorized" alone is left to the placeholder rule.
C6_CategoriesDeduplicated ==
    (/\ parser = "cashcanvas"
     /\ rows_read = 1
     /\ Len(transactions) = 1
     /\ Lower(RowCell("spend_categories")) # Lower(Uncategorized))
    => LET pieces == SplitOn(RowCell("spend_categories"), ",")
       IN  transactions[1].spend_category_names = FirstSeen(pieces, Len(pieces))

\* a cost-center name and a category list as the resolver leaves them
CleanNames(txn) ==
    /\ txn.cost_center_name # None
    /\ txn.cost_center_name # <<>>
    /\ txn.cost_center_name = Strip(txn.cost_center_name)
    /\ txn.spend_category_names # <<>>
    /\ txn.spend_category_names = CleanNameList(txn.spend_category_names)

\* C7: every record returned by parse_csv carries clean names: a non-empty,
\* trimmed cost-center name ("Uncategorized" when the source gave none, as
\* for every Schwab row) and a non-empty, duplicate-free list of non-blank
\* spend-category names (["Uncategorized"] when the source gave none).
C7_CleanNames ==
    pc = "returned" =>
       \A k \in 1..Len(result) :
          /\ CleanNames(result[k])
          /\ parser = "schwab" =>
                /\ result[k].cost_center_name = Uncategorized
                /\ result[k].spend_category_names = <<Uncategorized>>

---------------------------------------------------------------------------
(* Properties of the category resolver (SpecResolve).                      *)

\* C8: the resolved list is the input with each name trimmed, blank names
\* dropped and duplicates removed keeping the first occurrence's position,
\* and is ["Uncategorized"] when that leaves nothing (a null or empty input
\* included); the schema validator and the persistence helper give the same
\* list for every input; resolving a resolved list changes nothing.
C8_Resolution ==
    /\ names_schema # NotResolved =>
          /\ names_schema = CleanNameList(names_in)
          /\ default_spend_categories(names_schema) = names_schema
    /\ names_db # NotResolved => names_db = names_schema
    /\ names_again # NotResolved => names_again = names_schema

\* [" Food ", "Food", "Travel"] resolved to ["Food", "Travel"] three times
C8_Witness ==
    /\ names_in = << <<" ", "F", "o", "o", "d", " ">>, <<"F", "o", "o", "d">>,
                     <<"T", "r", "a", "v", "e", "l">> >>
    /\ names_schema = << <<"F", "o", "o", "d">>, <<"T", "r", "a", "v", "e", "l">> >>
    /\ names_db = names_schema
    /\ names_again = names_schema

---------------------------------------------------------------------------
(* Properties of the header resolver (SpecHeaders).                        *)

\* a header without its BOM characters and whitespace, case kept
Squeeze(header) ==
    SelectSeq(header, LAMBDA c : c \notin Whitespace \cup {BOM, BOMswapped})

NoisyTransDate ==
    <<" ", "T", "r", "a", "n", "s", ".", " ", " ", "D", "a", "t", "e", BOM>>

LowerTransDate == <<"t", "r", "a", "n", "s", ".", " ", "d", "a", "t", "e">>

\* C9: header resolution treats two headers as equal exactly when they are
\* identical after removing BOM characters and all whitespace from both,
\* letter case significant: an expected header is missing exactly when no
\* header of the file squeezes to the same text, the header mapped to a
\* logical key squeezes to the expected one, " Trans.  Date<BOM>" matches
\* "Trans. Date" and "trans. date" does not.
C9_HeaderEquality ==
    (hdr_outcome.kind \in {"ok", "HeaderMismatch"}) =>
       /\ \A i \in 1..Len(hdr_expected) :
             LET expected == hdr_expected[i].display
                 matched  == \E j \in 1..Len(hdr_actual) :
                                Squeeze(hdr_actual[j]) = Squeeze(expected)
             IN  /\ matched <=> expected \notin Range(hdr_outcome.missing)
                 /\ hdr_outcome.kind = "ok" =>
                       Squeeze(HeaderOf(hdr_outcome.map, hdr_expected[i].key))
                          = Squeeze(expected)
       /\ hdr_outcome.kind = "ok" <=> hdr_outcome.missing = <<>>
       /\ (hdr_expected = SubSeq(DiscoverHeaders, 1, 2)
             /\ hdr_actual = <<NoisyTransDate, Description>>)
          => hdr_outcome.kind = "ok"
       /\ (hdr_expected = SubSeq(DiscoverHeaders, 1, 2)
             /\ hdr_actual = <<LowerTransDate, Description>>)
          => hdr_outcome.missing = <<TransDate>>

\* the noisy header was accepted for the expected "Trans. Date"
C9_Witness ==
    /\ hdr_expected = SubSeq(DiscoverHeaders, 1, 2)
    /\ hdr_actual = <<NoisyTransDate, Description>>
    /\ hdr_outcome.kind = "ok"
    /\ HeaderOf(hdr_outcome.map, "date") = Strip(NoisyTransDate)

\* the expected display names that no header of the file squeezes to, in
\* the order of the expected columns
MissingNames ==
    LET displays == [i \in 1..Len(hdr_expected) |-> hdr_expected[i].display]
    IN  SelectSeq(displays,
                  LAMBDA name : \A j \in 1..Len(hdr_actual) :
                                   Squeeze(hdr_actual[j]) # Squeeze(name))

\* C20: on a file with a header row, header validation fails when an
\* expected column is absent, with one error that lists every missing
\* expected display name (all of them, in the order of the expected columns)
\* and the full list of the file's headers; it succeeds exactly when no
\* expected header is missing, whatever other columns the file has.  Only a
\* file without a header row gets the empty-file error instead.
C20_HeaderMismatch ==
    hdr_outcome.kind # "pending" =>
        /\ hdr_outcome.kind = "EmptyFile" <=> hdr_actual = <<>>
        /\ hdr_actual # <<>> =>
              /\ hdr_outcome.kind = "ok" <=> MissingNames = <<>>
              /\ MissingNames # <<>> =>
                    /\ hdr_outcome.kind = "HeaderMismatch"
                    /\ hdr_outcome.missing = MissingNames
                    /\ hdr_outcome.found =
                          [j \in 1..Len(hdr_actual) |-> Strip(hdr_actual[j])]

\* a Discover file with the date column and a misnamed second column was
\* refused with its three missing columns and its two headers listed
C20_Witness ==
    /\ hdr_expected = DiscoverHeaders
    /\ hdr_outcome.kind = "HeaderMismatch"
    /\ hdr_outcome.missing = <<Description, Amount, Category>>
    /\ Len(hdr_outcome.found) = 2
    /\ Squeeze(hdr_outcome.found[1]) = Squeeze(TransDate)

\* a file with all expected columns and one more was accepted
C20_ExtraColumnIgnored ==
    /\ hdr_expected = SubSeq(SchwabHeaders, 1, 1)
    /\ Len(hdr_actual) = 2
    /\ hdr_outcome.kind = "ok"

---------------------------------------------------------------------------
(* Properties of the institution router (Spec).                            *)

KnownInstitutions ==
    { <<"d", "i", "s", "c", "o", "v", "e", "r">>,
      <<"s", "c", "h", "w", "a", "b">>,
      <<"s", "c", "h", "w", "a", "b", " ", "c", "h", "e", "c", "k", "i", "n", "g">>,
      <<"c", "a", "s", "h", "c", "a", "n", "v", "a", "s">> }

\* the tag is name between leading and trailing whitespace, case aside
IsPadded(tag, name) ==
    \E i \in 1..(Len(tag) + 1), j \in 0..Len(tag) :
       /\ \A k \in 1..(i - 1) : tag[k] \in Whitespace
       /\ \A k \in (j + 1)..Len(tag) : tag[k] \in Whitespace
       /\ Lower(SubSeq(tag, i, j)) = name

\* the tag is name once case and every space are set aside
IsSpaceInsensitive(tag, name) ==
    Lower(SelectSeq(tag, LAMBDA c : c \notin Whitespace))
       = SelectSeq(name, LAMBDA c : c \notin Whitespace)

\* parse_csv has run on the tag of the request
Routed == pc \in {"read_header", "rows", "raised", "returned", "done"}

\* C10, spaces inside the tag significant: parse_csv accepts a tag exactly when the tag, lower-cased
\* and with leading and trailing whitespace removed, is one of the four
\* names; every other tag fails
\* with the unknown-institution error and no record is returned or stored.
C10_TrimmedMatch ==
    Routed =>
       /\ parser # "" <=> \E name \in KnownInstitutions : IsPadded(form_institution, name)
       /\ parser = "" =>
             /\ raised.kind = "UnknownInstitution"
             /\ result = <<>> /\ transactions = <<>>
             /\ save_calls = 0 /\ db = <<>>
       /\ parser # "" => raised.kind # "UnknownInstitution"
       /\ parser = "discover" <=> IsPadded(form_institution, <<"d", "i", "s", "c", "o", "v", "e", "r">>)
       /\ parser = "schwab" <=>
             \/ IsPadded(form_institution, <<"s", "c", "h", "w", "a", "b">>)
             \/ IsPadded(form_institution, <<"s", "c", "h", "w", "a", "b", " ",
                                             "c", "h", "e", "c", "k", "i", "n", "g">>)
       /\ parser = "cashcanvas" <=>
             IsPadded(form_institution, <<"c", "a", "s", "h", "c", "a", "n", "v", "a", "s">>)

\* the tag "schwabchecking" was answered with the unknown-institution error
C10_Witness ==
    /\ form_institution = <<"s", "c", "h", "w", "a", "b", "c", "h", "e", "c", "k", "i", "n", "g">>
    /\ raised.kind = "UnknownInstitution"
    /\ response.status = 400
    /\ result = <<>>

\* C10: parse_csv accepts an institution tag by case-insensitive and
\* space-insensitive match against "discover", "schwab", "schwab checking"
\* and "cashcanvas", and fails with the unknown-institution error for every
\* other tag, without returning records.
C10_SpaceInsensitiveMatch ==
    Routed =>
       /\ parser # "" <=>
             \E name \in KnownInstitutions : IsSpaceInsensitive(form_institution, name)
       /\ parser = "" => raised.kind = "UnknownInstitution" /\ result = <<>>

---------------------------------------------------------------------------
(* Properties of the analytics aggregator (SpecAnalytics).                 *)

\* the sum of a list of numbers, exactly
RECURSIVE ExactSum(_)
ExactSum(values) ==
    IF values = <<>> THEN 0 ELSE values[1] + ExactSum(Tail(values))

\* the amounts of the list given to compute_analytics
GivenAmounts == MapSeq(an_txns, AmountOf)

\* compute_analytics has returned for the given list
Computed == an_result # NoAnalytics

\* it has returned for the second ordering as well
Recomputed == an_reordered # NoAnalytics

\* C11: for any transaction list, compute_analytics returns total_cash equal
\* to the sum of all transaction amounts (wherever that sum is itself an
\* amount the result can hold), and equal to the balance of the last
\* balance_timeline point when the list is non-empty and to 0.0 when it is
\* empty.
C11_TotalCashIsSum ==
    Computed =>
       /\ IsFloat(ExactSum(GivenAmounts)) =>
             an_result.total_cash = ExactSum(GivenAmounts)
       /\ an_txns = <<>> => an_result.total_cash = 0
       /\ an_txns # <<>> =>
             an_result.total_cash =
                an_result.balance_timeline[Len(an_result.balance_timeline)].balance

\* C12: for any transaction list the two independently computed figures
\* agree: total_cash = total_income - total_spent, where total_spent is
\* minus the sum of the amounts below 0 and total_income the sum of the
\* amounts above 0 (amounts of 0 contribute to neither).
C12_CashIsIncomeLessSpent ==
    Computed =>
       /\ an_result.total_cash
             = FloatRound(an_result.total_income - an_result.total_spent)
       /\ an_result.total_spent
             = 0 - FloatSum(SelectSeq(GivenAmounts, LAMBDA a : a < 0))
       /\ an_result.total_income = FloatSum(SelectSeq(GivenAmounts, LAMBDA a : a > 0))

\* a per-entity list is in non-decreasing order of expense_total and has
\* exactly one entry for each id of the set
SortedOnePerId(entries, ids) ==
    /\ \A i \in 1..Len(entries), j \in 1..Len(entries) :
          i < j => entries[i].expense_total <= entries[j].expense_total
    /\ \A i \in 1..Len(entries), j \in 1..Len(entries) :
          entries[i].id = entries[j].id => i = j
    /\ {entries[i].id : i \in 1..Len(entries)} = ids

CostCenterIds(txns) == {txns[i].cost_center_id : i \in 1..Len(txns)}

\* C13: cost_center_spending and spend_category_stats are each sorted in
\* non-decreasing order of expense_total, the most negative first, and each
\* has exactly one entry per distinct cost-center id / spend-category id of
\* the input.
C13_SortedByExpense ==
    /\ Computed =>
          /\ SortedOnePerId(an_result.cost_center_spending, CostCenterIds(an_txns))
          /\ SortedOnePerId(an_result.spend_category_stats,
                            {c.id : c \in UNION {Range(an_txns[i].spend_categories) :
                                                    i \in 1..Len(an_txns)}})
    /\ Recomputed =>
          /\ SortedOnePerId(an_reordered.cost_center_spending, CostCenterIds(an_order))
          /\ SortedOnePerId(an_reordered.spend_category_stats,
                            {c.id : c \in UNION {Range(an_order[i].spend_categories) :
                                                    i \in 1..Len(an_order)}})

\* three cost centers: Housing spent most and comes first, Income spent
\* nothing and comes last
C13_Witness ==
    /\ Computed
    /\ Len(an_result.cost_center_spending) = 3
    /\ an_result.cost_center_spending[1].id = 2
    /\ an_result.cost_center_spending[1].expense_total = 0 - Big
    /\ an_result.cost_center_spending[2].expense_total = 0 - 1
    /\ an_result.cost_center_spending[3].expense_total = 0
    /\ Len(an_result.spend_category_stats) = 2

\* C14: compute_analytics is order-independent: for any two orderings of the
\* same transaction list every field of the result other than
\* balance_timeline is identical, the order of the entries of
\* monthly_spending, cost_center_spending and spend_category_stats included.
C14_OrderIndependent ==
    Recomputed =>
       [an_reordered EXCEPT !.balance_timeline = <<>>]
          = [an_result EXCEPT !.balance_timeline = <<>>]

\* the ordering of the given transactions that ascends by (date, id)
ByDateThenId ==
    CHOOSE order \in Orderings(an_txns) :
       \A i \in 1..Len(order), j \in 1..Len(order) :
          i < j => \/ DateLess(order[i].date, order[j].date)
                   \/ order[i].date = order[j].date /\ order[i].id < order[j].id

\* a timeline has one point per transaction of an ordering, and each
\* balance is the one before it plus the amount of its transaction
IsRunningBalance(timeline, order) ==
    /\ Len(timeline) = Len(order)
    /\ \A k \in 1..Len(timeline) :
          /\ timeline[k].date = order[k].date
          /\ timeline[k].description = order[k].description
          /\ timeline[k].amount = order[k].amount
          /\ timeline[k].cost_center_name = order[k].cost_center
          /\ timeline[k].balance =
                FloatAdd(IF k = 1 THEN 0 ELSE timeline[k - 1].balance,
                         order[k].amount)

TaggedWith(id) ==
    SelectSeq(an_txns, LAMBDA t : \E k \in 1..Len(t.spend_categories) :
                                     t.spend_categories[k].id = id)

\* the number of (transaction, category) pairs of the first n transactions
RECURSIVE PairCount(_)
PairCount(n) ==
    IF n = 0 THEN 0 ELSE PairCount(n - 1) + Len(an_txns[n].spend_categories)

\* C16: a transaction with N spend categories adds its full, unsplit amount
\* and a count of 1 to each of its N category buckets and a transaction
\* with no spend category adds to none; hence the sum of transaction_count
\* over spend_category_stats is the number of (transaction, category) pairs
\* of the input.
C16_FullAmountPerCategory ==
    Computed =>
       LET stats == an_result.spend_category_stats
       IN  /\ \A i \in 1..Len(stats) :
                 LET members == TaggedWith(stats[i].id)
                     amounts == MapSeq(members, AmountOf)
                 IN  /\ members # <<>>
                     /\ stats[i].transaction_count = Len(members)
                     /\ stats[i].total = FloatSum(amounts)
                     /\ stats[i].expense_total
                           = FloatSum(SelectSeq(amounts, LAMBDA a : a < 0))
                     /\ Len(members) = 1 => stats[i].total = members[1].amount
           /\ \A id \in {Groceries.id, Fun.id} :
                 TaggedWith(id) # <<>> => \E i \in 1..Len(stats) : stats[i].id = id
           /\ ExactSum(MapSeq(stats, LAMBDA e : e.transaction_count))
                 = PairCount(Len(an_txns))

\* Coffee (-1, Groceries and Fun), Rent (-1, Fun) and Cashback (no
\* category): Fun counts both at -2, Groceries counts Coffee at its full -1
C16_Witness ==
    /\ Computed
    /\ Len(an_txns) = 3
    /\ an_txns[1].id = 3 /\ an_txns[2].id = 4 /\ an_txns[3].id = 5
    /\ Len(an_result.spend_category_stats) = 2
    /\ an_result.spend_category_stats[1].id = Fun.id
    /\ an_result.spend_category_stats[1].transaction_count = 2
    /\ an_result.spend_category_stats[1].total = 0 - 2
    /\ an_result.spend_category_stats[2].id = Groceries.id
    /\ an_result.spend_category_stats[2].transaction_count = 1
    /\ an_result.spend_category_stats[2].total = 0 - 1

\* C17: compute_analytics on an empty list returns without raising and
\* without dividing: every total, average and count is zero and
\* monthly_spending, cost_center_spending, spend_category_stats and
\* balance_timeline are empty; for a non-empty list with no expense (no
\* income) avg_expense (avg_income) is 0.0 and no division by zero is made.
C17_NoDivisionByZero ==
    Computed =>
       /\ an_result.raised = "none"
       /\ an_result.avg_expense.den # 0 /\ an_result.avg_income.den # 0
       /\ an_txns = <<>> =>
             /\ an_result.total_spent = 0 /\ an_result.total_income = 0
             /\ an_result.total_cash = 0
             /\ an_result.total_transactions = 0
             /\ an_result.total_cost_centers = 0
             /\ an_result.total_spend_categories = 0
             /\ an_result.avg_expense = ZeroAverage
             /\ an_result.avg_income = ZeroAverage
             /\ an_result.monthly_spending = <<>>
             /\ an_result.cost_center_spending = <<>>
             /\ an_result.spend_category_stats = <<>>
             /\ an_result.balance_timeline = <<>>
       /\ (\A i \in 1..Len(an_txns) : ~(an_txns[i].amount < 0)) =>
             an_result.avg_expense = ZeroAverage
       /\ (\A i \in 1..Len(an_txns) : ~(an_txns[i].amount > 0)) =>
             an_result.avg_income = ZeroAverage
       /\ (\E i \in 1..Len(an_txns) : an_txns[i].amount < 0) =>
             an_result.avg_expense.den
                = Cardinality({i \in 1..Len(an_txns) : an_txns[i].amount < 0})

\* one Salary and nothing spent: the average expense is 0.0, the average
\* income the salary
C17_Witness ==
    /\ Computed
    /\ Len(an_txns) = 1
    /\ an_txns[1].amount = Big
    /\ an_result.raised = "none"
    /\ an_result.avg_expense = ZeroAverage
    /\ an_result.avg_income = [ok |-> TRUE, num |-> Big, den |-> 1]

---------------------------------------------------------------------------
(* Properties of the CashCanvas round trip (SpecRoundTrip).                *)

Reparsed == rt_back # NotReparsed

\* the placeholder word in a letter case other than the canonical one
IsRespelledPlaceholder(name) ==
    Lower(name) = Lower(Uncategorized) /\ name # Uncategorized

\* a transaction whose cost center, or whose only category, is the
\* placeholder word in another letter case
HasRespelledPlaceholder(txn) ==
    \/ IsRespelledPlaceholder(txn.cost_center_name)
    \/ /\ Len(txn.spend_category_names) = 1
       /\ IsRespelledPlaceholder(txn.spend_category_names[1])

\* C18: a stored transaction with a clean cost-center name and duplicate-free,
\* non-empty, comma-free category names, written as a CashCanvas row and
\* parsed and validated again, comes back with the same date, description,
\* amount, account, cost-center name, category list and notes, also when its
\* cost center or only category is "Uncategorized" in any letter case.
C18_RoundTrip ==
    Reparsed => rt_back.ok /\ rt_back.model = rt_txn

\* the round trip apart from the respelled placeholder: every other stored
\* transaction comes back unchanged, and a respelled placeholder comes back
\* in the canonical spelling with the rest of the record kept
RoundTripUpToPlaceholder ==
    Reparsed =>
        /\ rt_back.ok
        /\ ~HasRespelledPlaceholder(rt_txn) => rt_back.model = rt_txn
        /\ rt_back.model.cost_center_name =
              IF IsRespelledPlaceholder(rt_txn.cost_center_name)
              THEN Uncategorized ELSE rt_txn.cost_center_name
        /\ [rt_back.model EXCEPT !.cost_center_name = <<>>,
                                 !.spend_category_names = <<>>]
             = [rt_txn EXCEPT !.cost_center_name = <<>>,
                              !.spend_category_names = <<>>]

---------------------------------------------------------------------------
(* Properties of the aggregate error (SpecLong).                           *)

\* the data rows of the file that do not decode
FailingRows == {k \in 1..Len(file_rows) : ~RowIsValid(k)}

\* the k-th member of a set of row positions
Nth(positions, k) ==
    CHOOSE i \in positions : Cardinality({j \in positions : j < i}) = k - 1

Min(a, b) == IF a < b THEN a ELSE b

\* C19: with n >= 1 failing rows the aggregate error states the count n and
\* carries exactly the first min(n, 20) row errors, in row order and each
\* under its row number; the later ones are absent; and the call fails (no
\* batch is returned) for every n >= 1 and only then.
C19_ErrorCap ==
    /\ pc = "returned" => FailingRows = {}
    /\ raised.kind # "none" =>
          LET failing == FailingRows
              n == Cardinality(failing)
          IN  /\ n >= 1
              /\ raised.kind = "BatchValidationFailed"
              /\ raised.count = n
              /\ Len(raised.shown) = Min(n, ErrorCap)
              /\ \A k \in 1..Len(raised.shown) :
                    LET row == Nth(failing, k)
                    IN  raised.shown[k] =
                            [row |-> row + EnumerateStart - 1,
                             msg |-> DecodeRow(parser, fieldnames, headers,
                                               file_rows[row]).msg]
    /\ (pc = "done" /\ response.status # 400) => FailingRows = {}
    /\ (pc = "done" /\ response.status = 400) => response.detail = raised

\* a file with more failing rows than the message holds, and a decodable
\* row among the first of them, was answered 400
C19_Witness ==
    /\ pc = "done"
    /\ response.status = 400
    /\ Len(errors) > ErrorCap
    /\ Len(raised.shown) = ErrorCap
    /\ \E k \in 1..ErrorCap : RowIsValid(k)

---------------------------------------------------------------------------
(* Properties of the order of failures in parse_csv (Spec).                *)

\* the errors raised before the row loop is entered
EarlyErrors == {"UnknownInstitution", "EmptyFile", "HeaderMismatch"}

\* parse_csv has been entered and has passed its dispatch
Dispatched == pc \notin {"idle", "rejected", "parse_csv"}

\* C21: an unknown institution, an empty file and a header mismatch each end
\* parse_csv before any data row is decoded: no row was read, no row error
\* is recorded or reported and no record is produced; an unknown tag always
\* ends the call that way, before a file is opened; and the row errors are
\* reported only when every row of the file has been examined.
C21_FailureOrder ==
    /\ raised.kind \in EarlyErrors =>
          /\ rows_read = 0
          /\ errors = <<>>
          /\ raised.count = 0 /\ raised.shown = <<>>
          /\ transactions = <<>> /\ result = <<>> /\ db = <<>>
          /\ save_calls = 0
    /\ (Dispatched /\ Route(NormalizeInstitution(form_institution)) = "unknown") =>
          /\ raised.kind = "UnknownInstitution"
          /\ fieldnames = <<>> /\ file_rows = <<>>
    /\ raised.kind = "EmptyFile" <=> (pc \in {"raised", "done"} /\ parser # ""
                                       /\ fieldnames = <<>>)
    /\ raised.kind = "BatchValidationFailed" =>
          /\ rows_read = Len(file_rows)
          /\ errors # <<>>
          /\ Len(errors) + Len(transactions) = Len(file_rows)
    /\ (errors # <<>> /\ rows_read < Len(file_rows)) => raised.kind = "none"

\* a file whose header row lacks a column was answered 400 with the header
\* error although it has data rows: none of them was read
C21_Witness ==
    /\ pc = "done"
    /\ response.status = 400
    /\ raised.kind = "HeaderMismatch"
    /\ Len(file_rows) >= 2
    /\ rows_read = 0
    /\ errors = <<>>

\* an unknown tag was answered 400 without a file being read
C21_UnknownWitness ==
    /\ pc = "done"
    /\ response.status = 400
    /\ raised.kind = "UnknownInstitution"
    /\ fieldnames = <<>>

---------------------------------------------------------------------------
(* Properties of the monthly buckets and of the breakdowns taken together  *)
(* (SpecAnalytics).                                                        *)

\* the given transactions dated in a month, in the given order
InMonth(month) == SelectSeq(an_txns, LAMBDA t : MonthKey(t.date) = month)

\* the exact sum of the amount fields of a set of records
RECURSIVE AmountSum(_)
AmountSum(entries) ==
    IF entries = {} THEN 0
    ELSE LET e == CHOOSE x \in entries : TRUE
         IN  e.amount + AmountSum(entries \ {e})

\* one bucket per month of the input, in strictly ascending month order,
\* each counting the transactions of its month, with one by_cost_center
\* entry per cost-center name that has an expense in the month
MonthlyBucketsShape ==
    Computed =>
        LET buckets == an_result.monthly_spending
        IN  /\ {buckets[i].month : i \in 1..Len(buckets)}
                  = {MonthKey(an_txns[k].date) : k \in 1..Len(an_txns)}
            /\ \A i \in 1..Len(buckets), j \in 1..Len(buckets) :
                  i < j => MonthLess(buckets[i].month, buckets[j].month)
            /\ \A i \in 1..Len(buckets) :
                  LET members == InMonth(buckets[i].month)
                      spent   == SelectSeq(members, LAMBDA t : t.amount < 0)
                  IN  /\ buckets[i].transaction_count = Len(members)
                      /\ {e.name : e \in buckets[i].by_cost_center}
                            = {spent[k].cost_center : k \in 1..Len(spent)}
                      /\ \A e \in buckets[i].by_cost_center :
                            e.amount = FloatSum(MapSeq(
                                SelectSeq(spent, LAMBDA t : t.cost_center = e.name),
                                AmountOf))

\* C22: monthly_spending has exactly one bucket per distinct month of the
\* input dates, in strictly ascending month order; in each bucket
\* transaction_count is the number of the month's transactions, total equals
\* expense_total + income_total and the sum of the month's amounts, and the
\* values of by_cost_center (each the negative-amount subtotal of one
\* cost-center name for the month) sum to expense_total.
C22_MonthlyBuckets ==
    /\ MonthlyBucketsShape
    /\ Computed =>
          \A i \in 1..Len(an_result.monthly_spending) :
             LET bucket == an_result.monthly_spending[i]
                 exact  == ExactSum(MapSeq(InMonth(bucket.month), AmountOf))
             IN  /\ bucket.total = FloatAdd(bucket.expense_total, bucket.income_total)
                 /\ IsFloat(exact) => bucket.total = exact
                 /\ IsFloat(AmountSum(bucket.by_cost_center)) =>
                       AmountSum(bucket.by_cost_center) = bucket.expense_total

---------------------------------------------------------------------------
(* Properties of the store under the CRUD calls (SpecStore).               *)

\* the rows of a table that carry an id, or a name
RowsWithId(table, id) == {i \in 1..Len(table) : table[i].id = id}
RowsNamed(table, name) == {i \in 1..Len(table) : table[i].name = name}

\* C23: starting from a store without orphans, after any sequence of
\* create_transaction, update_transaction and delete_transaction calls made
\* one after another, every cost center and every spend category of the store
\* is referenced by at least one transaction: the call that takes away the
\* last reference removes the row.
C23_NoOrphans ==
    /\ \A i \in 1..Len(cc_table) :
          \E k \in 1..Len(txn_table) : txn_table[k].cost_center_id = cc_table[i].id
    /\ \A i \in 1..Len(sc_table) :
          \E k \in 1..Len(txn_table) :
             \E j \in 1..Len(txn_table[k].spend_category_ids) :
                txn_table[k].spend_category_ids[j] = sc_table[i].id

\* the first transaction was deleted while a second one stayed: the cost
\* center and the spend category only it used (ids 1) are gone from the
\* tables, those of the second one (ids 2) remain
C23_Witness ==
    /\ last_call.op = "delete"
    /\ Len(txn_table) = 1 /\ txn_table[1].id = 2
    /\ Len(cc_table) = 1 /\ cc_table[1].id = 2
    /\ Len(sc_table) = 1 /\ sc_table[1].id = 2

\* C26: after any sequence of create_transaction and update_transaction
\* calls (updates that set cost_center_name or spend_category_names to null,
\* blank or an empty list included), every stored transaction references
\* exactly one cost center and at least one spend category, none of them
\* twice, and no two cost centers and no two spend categories of the store
\* have the same name.
C26_References ==
    /\ \A k \in 1..Len(txn_table) :
          LET ids == txn_table[k].spend_category_ids
          IN  /\ Cardinality(RowsWithId(cc_table, txn_table[k].cost_center_id)) = 1
              /\ Len(ids) >= 1
              /\ \A i \in 1..Len(ids) : Cardinality(RowsWithId(sc_table, ids[i])) = 1
              /\ \A i \in 1..Len(ids), j \in 1..Len(ids) : ids[i] = ids[j] => i = j
    /\ \A i \in 1..Len(cc_table) :
          RowsNamed(cc_table, cc_table[i].name) = {i}
    /\ \A i \in 1..Len(sc_table) :
          RowsNamed(sc_table, sc_table[i].name) = {i}

\* an update has just set both fields of the first transaction to null or
\* blank values: it now has the placeholder cost center and the placeholder
\* category, rows that another transaction has created
C26_Witness ==
    /\ last_call = [op |-> "update", blanked |-> TRUE]
    /\ Len(txn_table) = 2
    /\ txn_table[1].id = 1
    /\ txn_table[1].cost_center_id = 2
    /\ txn_table[1].spend_category_ids = <<2>>
    /\ \E i \in 1..Len(cc_table) :
          cc_table[i].id = 2 /\ cc_table[i].name = Uncategorized
    /\ \E i \in 1..Len(sc_table) :
          sc_table[i].id = 2 /\ sc_table[i].name = Uncategorized

---------------------------------------------------------------------------
(* Properties of the two query builders (SpecFilter).                      *)

\* the request without one of its arguments
Without(args, name) == [args EXCEPT ![name] = NotGiven(args[name].v)]

\* a row lying exactly on a given bound is selected whenever it is
\* selected without that bound
OnBoundKept(table, args) ==
    \A t \in table :
        /\ (args.start_date.set /\ t.date = args.start_date.v)
              => (t.id \in build_filter_query(table, args)
                    <=> t.id \in build_filter_query(table, Without(args, "start_date")))
        /\ (args.end_date.set /\ t.date = args.end_date.v)
              => (t.id \in build_filter_query(table, args)
                    <=> t.id \in build_filter_query(table, Without(args, "end_date")))
        /\ (args.min_amount.set /\ t.amount = args.min_amount.v)
              => (t.id \in build_filter_query(table, args)
                    <=> t.id \in build_filter_query(table, Without(args, "min_amount")))
        /\ (args.max_amount.set /\ t.amount = args.max_amount.v)
              => (t.id \in build_filter_query(table, args)
                    <=> t.id \in build_filter_query(table, Without(args, "max_amount")))

\* C24: get_transactions and build_filter_query select the same rows for
\* every table and every combination of filter arguments, empty lists and
\* zero bounds included: the analytics endpoint and the filter endpoint
\* answer with the same set, and so do the two functions on every part of
\* the table; the date and amount bounds are inclusive.
C24_SameSelection ==
    /\ (flt_listed.done /\ flt_analysed.done) => flt_listed.ids = flt_analysed.ids
    /\ \A table \in SUBSET QueriedTable :
          build_filter_query(table, flt_args) = get_transactions(table, flt_args)
    /\ flt_listed.done => OnBoundKept(QueriedTable, flt_args)

\* both endpoints were asked with an empty id list and a lower bound of
\* zero: the row of amount 0 is selected, the expense is not
C24_Witness ==
    /\ flt_listed.done /\ flt_analysed.done
    /\ flt_args.cost_center_ids = Given(<<>>)
    /\ flt_args.min_amount = Given(0)
    /\ 3 \in flt_listed.ids
    /\ 1 \notin flt_listed.ids
    /\ 1 \notin flt_analysed.ids

\* both endpoints were asked for the one day of a row: that row alone
C24_DayWitness ==
    /\ flt_listed.done /\ flt_analysed.done
    /\ flt_args.start_date = Given(Jan15)
    /\ flt_args.end_date = Given(Jan15)
    /\ flt_listed.ids = {1}

---------------------------------------------------------------------------
(* Properties of the header spelling and the row loop (Spec).              *)

\* the header row with every expected column spelled exactly
ExactSpelling(p, names) ==
    LET expected == ExpectedHeaders(p)
        exact(h) ==
            LET hits == {i \in 1..Len(expected) :
                            CleanHeader(expected[i].display) = CleanHeader(h)}
            IN  IF hits = {} THEN h ELSE expected[CHOOSE i \in hits : TRUE].display
    IN  [i \in 1..Len(names) |-> exact(names[i])]

\* every column name of the mapping is a key of the rows, and every row
\* read so far decodes as it does under the exactly spelled header row
DecodesAsExact ==
    LET exact == ExactSpelling(parser, fieldnames)
        exact_map == ParseHeaders(exact, ExpectedHeaders(parser)).map
    IN  /\ \A i \in 1..Len(headers) : HasKey(fieldnames, headers[i].header)
        /\ \A k \in 1..rows_read :
              DecodeRow(parser, fieldnames, headers, file_rows[k])
                 = DecodeRow(parser, exact, exact_map, file_rows[k])

\* a header row that passed validation and differs from its exact spelling
NoisyHeaderRow ==
    /\ headers # <<>>
    /\ fieldnames # ExactSpelling(parser, fieldnames)

\* C25: when the headers differ from the expected ones only by whitespace
\* or BOM characters, around or inside the names, every column name that
\* _parse_headers returned is a key of the row dictionaries and every data
\* row decodes exactly as it does from the same file with exact headers.
C25_HeaderNoise == NoisyHeaderRow => DecodesAsExact

\* the noise lies inside the names or is a BOM: str.strip() leaves every
\* header cell as it is
InnerNoiseOnly ==
    \A i \in 1..Len(fieldnames) : Strip(fieldnames[i]) = fieldnames[i]

\* noise that str.strip() leaves alone does not reach the rows
InnerNoiseDecodesAsExact == (NoisyHeaderRow /\ InnerNoiseOnly) => DecodesAsExact

\* a row was read under a header row with inner noise
InnerNoiseRowRead == NoisyHeaderRow /\ InnerNoiseOnly /\ rows_read > 0

---------------------------------------------------------------------------
(* Properties of the breakdowns against the summary figures                *)
(* (SpecAnalytics).                                                        *)

\* the values add up to x, exactly or as a float sum in list order
SumsTo(values, x) == ExactSum(values) = x \/ FloatSum(values) = x

\* the list without its k-th transaction
Omit(txns, k) == SubSeq(txns, 1, k - 1) \o SubSeq(txns, k + 1, Len(txns))

\* the transaction counts of both breakdowns add up to the number of
\* transactions, and the two entity counts are the lengths of the lists
BreakdownCounts ==
    (Computed /\ an_txns # <<>>) =>
        /\ ExactSum(MapSeq(an_result.cost_center_spending,
                           LAMBDA e : e.transaction_count))
              = an_result.total_transactions
        /\ ExactSum(MapSeq(an_result.monthly_spending,
                           LAMBDA e : e.transaction_count))
              = an_result.total_transactions
        /\ an_result.total_cost_centers = Len(an_result.cost_center_spending)
        /\ an_result.total_spend_categories = Len(an_result.spend_category_stats)

\* a transaction of amount 0 adds one to the count and leaves the summary
\* totals and the totals of its cost center and month as they are without it
ZeroAmountCounted ==
    Computed =>
        \A k \in 1..Len(an_txns) :
            (an_txns[k].amount = 0 /\ Len(an_txns) > 1) =>
                LET without == compute_analytics(Omit(an_txns, k))
                IN  /\ an_result.total_transactions = without.total_transactions + 1
                    /\ an_result.total_spent = without.total_spent
                    /\ an_result.total_income = without.total_income
                    /\ an_result.total_cash = without.total_cash
                    /\ \A e \in Range(an_result.cost_center_spending),
                          f \in Range(without.cost_center_spending) :
                          e.id = f.id =>
                             /\ e.total = f.total
                             /\ e.expense_total = f.expense_total
                             /\ e.income_total = f.income_total
                    /\ \A e \in Range(an_result.monthly_spending),
                          f \in Range(without.monthly_spending) :
                          e.month = f.month =>
                             /\ e.total = f.total
                             /\ e.expense_total = f.expense_total
                             /\ e.income_total = f.income_total

\* a list with a transaction of amount 0 among others was analysed
ZeroAmountAnalysed ==
    /\ Computed
    /\ Len(an_txns) > 1
    /\ \E k \in 1..Len(an_txns) : an_txns[k].amount = 0

\* C27: for a non-empty input the breakdowns agree with the summary: the
\* totals of cost_center_spending sum to total_cash and their expense_totals
\* to -total_spent, the totals of monthly_spending sum to total_cash, the
\* transaction counts of both lists sum to total_transactions, the two
\* entity counts are the lengths of the two per-entity lists, and a
\* transaction of amount 0 is counted but changes no total.
C27_BreakdownsAgree ==
    /\ BreakdownCounts
    /\ ZeroAmountCounted
    /\ (Computed /\ an_txns # <<>>) =>
          /\ SumsTo(MapSeq(an_result.cost_center_spending, LAMBDA e : e.total),
                    an_result.total_cash)
          /\ SumsTo(MapSeq(an_result.cost_center_spending,
                           LAMBDA e : e.expense_total),
                    0 - an_result.total_spent)
          /\ SumsTo(MapSeq(an_result.monthly_spending, LAMBDA e : e.total),
                    an_result.total_cash)

=============================================================================
